---------------------------- MODULE Spec2Model ----------------------------
(***************************************************************************)
(* A model of feroxbuster's scan manager (src/src/scan_manager.rs): the    *)
(* scan registry FeroxScans, the response cache FeroxResponses, the        *)
(* pause coordinator FeroxScans::pause, the state snapshot written by      *)
(* sigint_handler and its restore by resume_scan.                          *)
(*                                                                         *)
(* Strings are abstract values: every string is a tuple.  A url is the     *)
(* tuple of its segments (<<"B", "js">> is B/js, <<>> is the empty         *)
(* string), so that string equality is tuple equality and the url          *)
(* requested for a word under a scan is Append(url, word).  A scan id is   *)
(* a pair: <<"uuid", n>> is the n-th value Uuid::new_v4() returned in the  *)
(* first process, <<"uuid-r", n>> in the resumed process (uuids are        *)
(* assumed never to collide), <<"id", k>> is an id string of a state file  *)
(* that some other run wrote.                                              *)
(***************************************************************************)
EXTENDS Integers, Sequences, FiniteSets, TLC

(***************************************************************************)
(* Bounds of the model.                                                    *)
(***************************************************************************)
\* number of worker tasks that call into the registry concurrently
NumWorkers == 2
\* number of tasks that call pause concurrently
NumPausers == 2
\* number of FeroxScan objects one process may create
MaxScans == 2
\* number of FeroxResponses one process may cache
MaxResponses == 1
\* longest `scans` array and longest `responses` array of a state file that
\* another run wrote
MaxFileScans == 2
MaxFileResponses == 2
MaxCached == 2

Workers == 1..NumWorkers
Pausers == 1..NumPausers
Handles == 1..MaxScans

\* the thread that runs resume_scan and the driver's pass, and the only
\* caller of the sequential specifications
Main == 1

\* the thread the ctrlc crate runs sigint_handler on
CtrlcThread == NumWorkers + 1

\* urls the driver discovers
Urls == { <<"B">>, <<"B", "js">> }

\* the words of the wordlist
Wordlist == << <<"css">>, <<"stuff">> >>

(***************************************************************************)
(* ScanType and FeroxScan.                                                 *)
(***************************************************************************)
File == "ScanType::File"
Directory == "ScanType::Directory"
ScanType == {File, Directory}

\* Option<ProgressBar>: no bar, a bar that is drawing, a bar after finish()
NoBar == "None"
BarRunning == "Some(running)"
BarFinished == "Some(finished)"

\* a slot of the heap that holds no FeroxScan yet
NoScan == [id |-> <<"none", 0>>]

\* Uuid::new_v4().to_simple().to_string(): the n-th uuid of the process
Uuid(n, resumed) == <<IF resumed THEN "uuid-r" ELSE "uuid", n>>

\* FeroxScan::default()
DefaultScan(new_id) ==
    [id |-> new_id, url |-> <<>>, scan_type |-> File, complete |-> FALSE,
     task |-> "None", progress_bar |-> NoBar]

\* FeroxScan::new
NewScan(new_id, url, scan_type, pb) ==
    [DefaultScan(new_id) EXCEPT !.url = url, !.scan_type = scan_type, !.progress_bar = pb]

stop_progress_bar(s) ==
    IF s.progress_bar # NoBar THEN [s EXCEPT !.progress_bar = BarFinished] ELSE s

\* a finish that flips the flag
toggle_complete(s) == stop_progress_bar([s EXCEPT !.complete = ~s.complete])

\* FeroxScan::finish
finish(s) == stop_progress_bar([s EXCEPT !.complete = TRUE])

\* an abort that also marks the scan complete
abort_and_finish(s) == stop_progress_bar([s EXCEPT !.complete = TRUE])

\* FeroxScan::abort: the call of task.abort() is commented out
abort(s) == stop_progress_bar(s)

\* FeroxScan::progress_bar: the bar of the scan, created when there is none
progress_bar(s) ==
    IF s.progress_bar # NoBar THEN s ELSE [s EXCEPT !.progress_bar = BarRunning]

\* an equality that compares the urls
eq_by_url(a, b) == a.url = b.url

\* PartialEq for FeroxScan: self.id == other.id
FeroxScan_eq(a, b) == a.id = b.id

\* the four persisted fields of a FeroxScan
Record(s) == [id |-> s.id, url |-> s.url, scan_type |-> s.scan_type, complete |-> s.complete]

(***************************************************************************)
(* serde_json::Value.  An object is the sequence of its <<key, value>>     *)
(* pairs in the order they were written.                                   *)
(***************************************************************************)
JStr(s) == [t |-> "str", v |-> s]
JBool(b) == [t |-> "bool", v |-> b]
JNum(n) == [t |-> "num", v |-> n]
JArr(a) == [t |-> "arr", v |-> a]
JObj(kvs) == [t |-> "obj", v |-> kvs]

\* Option::None, as Value::get and the as_* accessors return it
Absent == [t |-> "absent", v |-> 0]

\* Value::get(key): the member of an object, None for any other value
Value_get(val, key) ==
    IF val.t = "obj" /\ \E i \in 1..Len(val.v) : val.v[i][1] = key
    THEN LET i == CHOOSE k \in 1..Len(val.v) :
                      /\ val.v[k][1] = key
                      /\ \A j \in (k + 1)..Len(val.v) : val.v[j][1] # key
         IN val.v[i][2]
    ELSE Absent

\* Value::as_str, Value::as_bool, Value::as_array: Some for that kind only
as_str(val) == IF val.t = "str" THEN val ELSE Absent
as_bool(val) == IF val.t = "bool" THEN val ELSE Absent
as_array(val) == IF val.t = "arr" THEN val ELSE Absent

(***************************************************************************)
(* Serialize and Deserialize for ScanType and FeroxScan.                   *)
(***************************************************************************)
\* a variant written in lower case
ScanTypeNameLower(scan_type) ==
    IF scan_type = Directory THEN <<"directory">> ELSE <<"file">>

\* #[derive(Serialize)] on ScanType: the variant's name
ScanTypeName(scan_type) ==
    IF scan_type = Directory THEN <<"Directory">> ELSE <<"File">>

FeroxScan_serialize(s) ==
    JObj(<< <<"id", JStr(s.id)>>,
            <<"url", JStr(s.url)>>,
            <<"scan_type", JStr(ScanTypeName(s.scan_type))>>,
            <<"complete", JBool(s.complete)>> >>)

\* the arms of deserialize's match on the key, each given the field's default
DeserId(val, d) ==
    LET x == as_str(Value_get(val, "id")) IN IF x # Absent THEN x.v ELSE d

\* a "scan_type" arm that matches the names whatever their case
DeserScanTypeAnyCase(val, d) ==
    LET x == as_str(Value_get(val, "scan_type"))
    IN IF x = Absent THEN d
       ELSE CASE x.v \in {<<"File">>, <<"file">>} -> File
              [] x.v \in {<<"Directory">>, <<"directory">>} -> Directory
              [] OTHER -> File

DeserScanType(val, d) ==
    LET x == as_str(Value_get(val, "scan_type"))
    IN IF x = Absent THEN d
       ELSE CASE x.v = <<"File">> -> File
              [] x.v = <<"Directory">> -> Directory
              [] OTHER -> File

\* a "complete" arm that leaves the default in place
DeserCompleteDefault(val, d) == d

DeserComplete(val, d) ==
    LET x == as_bool(Value_get(val, "complete")) IN IF x # Absent THEN x.v ELSE d

\* a "url" arm that leaves the default in place
DeserUrlDefault(val, d) == d

DeserUrl(val, d) ==
    LET x == as_str(Value_get(val, "url")) IN IF x # Absent THEN x.v ELSE d

\* Deserialize for FeroxScan: HashMap::deserialize fails on anything but an
\* object; new_id is the uuid Self::default() draws
FeroxScan_deserialize(val, new_id) ==
    IF val.t # "obj"
    THEN [ok |-> FALSE, scan |-> NoScan]
    ELSE LET d == DefaultScan(new_id)
         IN [ok |-> TRUE,
             scan |-> [d EXCEPT !.id = DeserId(val, d.id),
                                !.scan_type = DeserScanType(val, d.scan_type),
                                !.complete = DeserComplete(val, d.complete),
                                !.url = DeserUrl(val, d.url)]]

\* serde_json::from_value(scan.clone()).unwrap_or_default()
ScanFromValue(val, new_id) ==
    LET r == FeroxScan_deserialize(val, new_id)
    IN IF r.ok THEN r.scan ELSE DefaultScan(new_id)

(***************************************************************************)
(* FeroxResponse and Configuration: their types and serde implementations  *)
(* are outside scan_manager.rs; they follow the state file's format.       *)
(***************************************************************************)
\* probe results as the driver receives them
ResponsePool ==
    { [url |-> <<"B", "js", "css">>, path |-> <<"js", "css">>, wildcard |-> TRUE,
       status |-> 301, content_length |-> 173, line_count |-> 10, word_count |-> 16,
       headers |-> << <<"server", <<"nginx">> >> >>],
      [url |-> <<"B", "js", "css">>, path |-> <<"js", "css">>, wildcard |-> FALSE,
       status |-> 200, content_length |-> 9, line_count |-> 1, word_count |-> 2,
       headers |-> <<>>],
      [url |-> <<"B", "css">>, path |-> <<"css">>, wildcard |-> FALSE,
       status |-> 200, content_length |-> 9, line_count |-> 1, word_count |-> 2,
       headers |-> <<>>] }

\* the response a request of url receives
ResponseOf(url) ==
    [url |-> url, path |-> Tail(url), wildcard |-> FALSE, status |-> 200,
     content_length |-> 22, line_count |-> 1, word_count |-> 5, headers |-> <<>>]

HeadersJson(h) == JObj([i \in 1..Len(h) |-> <<h[i][1], JStr(h[i][2])>>])

FeroxResponse_serialize(r) ==
    JObj(<< <<"type", JStr(<<"response">>)>>,
            <<"url", JStr(r.url)>>,
            <<"path", JStr(r.path)>>,
            <<"wildcard", JBool(r.wildcard)>>,
            <<"status", JNum(r.status)>>,
            <<"content_length", JNum(r.content_length)>>,
            <<"line_count", JNum(r.line_count)>>,
            <<"word_count", JNum(r.word_count)>>,
            <<"headers", HeadersJson(r.headers)>> >>)

HeadersOk(val) == val.t = "obj" /\ \A i \in 1..Len(val.v) : val.v[i][2].t = "str"

FeroxResponse_deserialize(val) ==
    LET f(k) == Value_get(val, k)
        ok == /\ val.t = "obj"
              /\ f("url").t = "str"
              /\ f("path").t = "str"
              /\ f("wildcard").t = "bool"
              /\ \A k \in {"status", "content_length", "line_count", "word_count"} :
                    f(k).t = "num"
              /\ HeadersOk(f("headers"))
    IN IF ~ok THEN [ok |-> FALSE]
       ELSE [ok |-> TRUE,
             response |->
                [url |-> f("url").v, path |-> f("path").v, wildcard |-> f("wildcard").v,
                 status |-> f("status").v, content_length |-> f("content_length").v,
                 line_count |-> f("line_count").v, word_count |-> f("word_count").v,
                 headers |-> [i \in 1..Len(f("headers").v) |->
                                <<f("headers").v[i][1], f("headers").v[i][2].v>>]]]

\* the running configuration, as far as this module reads it
TheConfiguration == [target_url |-> <<"B">>]

Configuration_serialize(c) ==
    JObj(<< <<"type", JStr(<<"configuration">>)>>, <<"target_url", JStr(c.target_url)>> >>)

Configuration_deserialize(val) ==
    IF val.t = "obj" /\ Value_get(val, "target_url").t \in {"str", "absent"}
    THEN [ok |-> TRUE,
          config |-> [target_url |-> IF Value_get(val, "target_url").t = "str"
                                     THEN Value_get(val, "target_url").v ELSE <<>>]]
    ELSE [ok |-> FALSE]

(***************************************************************************)
(* The state file.                                                         *)
(***************************************************************************)
\* #[derive(Serialize)] on FeroxState: scans, config, responses, in this order
FeroxState_serialize(scans_json, config_json, responses_json) ==
    JObj(<< <<"scans", scans_json>>, <<"config", config_json>>,
            <<"responses", responses_json>> >>)

\* Serialize for FeroxResponses: the sequence of the stored responses
FeroxResponses_serialize(rs) ==
    JArr([i \in 1..Len(rs) |-> FeroxResponse_serialize(rs[i])])

\* a path no file can be opened at, and a file whose content is not JSON
NoFile == [t |-> "no file", v |-> 0]
NotJson == [t |-> "not json", v |-> 0]

\* sequences over S of length at most n
SeqsUpTo(S, n) == UNION { [1..k -> S] : k \in 0..n }

\* elements of a `scans` array written by another run or edited by hand
FileScanElems ==
    { FeroxScan_serialize([id |-> <<"id", 1>>, url |-> <<"B">>,
                           scan_type |-> Directory, complete |-> TRUE]),
      FeroxScan_serialize([id |-> <<"id", 2>>, url |-> <<"B", "js">>,
                           scan_type |-> Directory, complete |-> FALSE]),
      FeroxScan_serialize([id |-> <<"id", 3>>, url |-> <<"B", "js">>,
                           scan_type |-> File, complete |-> TRUE]),
      JObj(<< <<"id", JStr(<<"id", 4>>)>>, <<"url", JStr(<<"B">>)>>,
              <<"scan_type", JStr(<<"Not Correct">>)>>, <<"complete", JBool(TRUE)>> >>),
      JObj(<< <<"id", JNum(5)>>, <<"complete", JStr(<<"yes">>)>> >>),
      FeroxScan_serialize([id |-> <<"id", 6>>, url |-> <<>>,
                           scan_type |-> File, complete |-> TRUE]),
      JNum(7) }

\* elements of a `responses` array written by another run or edited by hand
FileResponseElems ==
    { FeroxResponse_serialize(r) : r \in ResponsePool } \cup
    { JStr(<<"junk">>),
      JObj(<< <<"type", JStr(<<"response">>)>>, <<"status", JNum(200)>> >>) }

FileConfigs ==
    { Configuration_serialize(TheConfiguration), JStr(<<"junk">>), Absent }

\* the members of an object that are present
Members(kvs) == SelectSeq(kvs, LAMBDA kv : kv[2] # Absent)

\* a `scans` array and a `responses` array of two elements each
TwoScans ==
    JArr(<< FeroxScan_serialize([id |-> <<"id", 1>>, url |-> <<"B">>,
                                 scan_type |-> Directory, complete |-> TRUE]),
            FeroxScan_serialize([id |-> <<"id", 2>>, url |-> <<"B", "js">>,
                                 scan_type |-> Directory, complete |-> FALSE]) >>)

TwoResponses ==
    JArr(<< JStr(<<"junk">>), FeroxResponse_serialize(ResponseOf(<<"B", "js", "css">>)) >>)

\* the state files a resumed run may be given: a missing file, files that
\* are not JSON or not an object, and objects in which one of the three
\* members varies over its values while the two others are one of two
StateFiles ==
    { NoFile, NotJson, JArr(<<>>) } \cup
    { JObj(Members(<< <<"scans", TwoScans>>, <<"config", c>>, <<"responses", TwoResponses>> >>)) :
        c \in FileConfigs } \cup
    { JObj(Members(<< <<"scans", s>>, <<"config", Configuration_serialize(TheConfiguration)>>,
                      <<"responses", r>> >>)) :
        s \in {Absent, JStr(<<"junk">>)} \cup
              { JArr(a) : a \in SeqsUpTo(FileScanElems, MaxFileScans) },
        r \in {Absent, TwoResponses} } \cup
    { JObj(Members(<< <<"scans", s>>, <<"config", Configuration_serialize(TheConfiguration)>>,
                      <<"responses", r>> >>)) :
        s \in {Absent, TwoScans},
        r \in {Absent, JStr(<<"junk">>)} \cup
              { JArr(a) : a \in SeqsUpTo(FileResponseElems, MaxFileResponses) } }
(***************************************************************************)
(* The state.                                                              *)
(***************************************************************************)
VARIABLES
    scans,       \* SCANNED_URLS.scans: the Vec of Arc<Mutex<FeroxScan>>, as handles
    scan,        \* the heap: handle -> FeroxScan (NoScan when not yet created)
    nscans,      \* how many FeroxScan objects (and uuids) the process created
    scans_lock,  \* holder of the Mutex around FeroxScans.scans, 0 when free
    scan_lock,   \* holder of each FeroxScan's Mutex, 0 when free
    pc,          \* each worker's position inside add_scan / insert
    cand,        \* the handle a worker passed to insert
    idx,         \* position of a worker's iteration inside contains
    sentry,      \* insert's local `sentry`
    pre          \* history: the registry's records when the worker called insert

regVars == <<scans, scan, nscans, scans_lock, scan_lock, pc, cand, idx, sentry, pre>>

VARIABLES
    responses    \* RESPONSES.responses: the Vec of FeroxResponse

VARIABLES
    PAUSE_SCAN,           \* the AtomicBool
    INTERACTIVE_BARRIER,  \* the AtomicUsize, as its residue modulo 2^64 nearest 0
    SINGLE_SPINNER,       \* the shared spinner: "new", "ticking" or "finished"
    ppc,                  \* each caller's position inside pause
    get_user_input,       \* pause's argument
    prompter,             \* whether the caller took the branch of barrier == 0
    renew,                \* what the caller read from SINGLE_SPINNER.is_finished()
    interval,             \* the caller's tokio interval: "due" or "armed"
    setSince              \* history: PAUSE_SCAN was set at every moment of the call so far

pauseVars == <<PAUSE_SCAN, INTERACTIVE_BARRIER, SINGLE_SPINNER, ppc, get_user_input,
               prompter, renew, interval, setSince>>

VARIABLES
    hpc,         \* sigint_handler's position; "exited" once the process has exited
    hidx,        \* position of the handler's iteration over the registry
    snap,        \* what the handler has serialized so far
    file,        \* the state file on disk
    seen         \* history: the live (registry, cache) pairs since the handler began

sigVars == <<hpc, hidx, snap, file, seen>>

VARIABLES
    rpc,         \* resume_scan's position; "off" in a process that does not resume
    ridx,        \* position of resume_scan's loop
    config,      \* the Configuration resume_scan returns
    restored,    \* history: the registry's records and the cache when resume_scan returned
    dpos,        \* the driver's position in its pass
    requests,    \* the requests the driver issued: <<scan url, word>>
    output       \* the urls whose response the driver reported

resVars == <<rpc, ridx, config, restored, dpos, requests, output>>

VARIABLES
    tpc,             \* start_max_time_thread's position; "off" when no limit is given
    time_spec,       \* its argument: the numeric part and the unit TIMESPEC_REGEX captured
    length_in_secs,  \* its local `length_in_secs`
    elapsed,         \* history: the time that had passed since the call when the delay ended
    invoked,         \* history: how many times the thread called sigint_handler
    second           \* a call of sigint_handler on another thread while one is running

limitVars == <<tpc, time_spec, length_in_secs, elapsed, invoked, second>>

VARIABLES
    call,        \* the last call made on its own: its operation and argument
    ret,         \* what that call returned
    poisoned     \* the locks a panic has poisoned

callVars == <<call, ret, poisoned>>

vars == <<regVars, responses, pauseVars, sigVars, resVars, limitVars, callVars>>

\* what the registry holds, in order
View(hs) == [i \in 1..Len(hs) |-> Record(scan[hs[i]])]

\* the live registry and cache
Live == [scans |-> View(scans), responses |-> responses]

\* FeroxScans::contains as a function of the state
contains(url) == \E i \in 1..Len(scans) : scan[scans[i]].url = url

\* an insert that keeps one entry for each url
insert_unless_contained(rs, r) ==
    IF \E i \in 1..Len(rs) : rs[i].url = r.url THEN rs ELSE Append(rs, r)

FeroxResponses_insert(rs, r) == Append(rs, r)

\* a lookup that finds nothing
ContainsNothing(rs, other) == FALSE

\* a lookup that compares whole responses
ContainsSameResponse(rs, other) == \E i \in 1..Len(rs) : rs[i] = other

\* `for response in responses.iter()`, from entry i on: true at the first
\* entry whose url is other.url, false at the end
RECURSIVE contains_from(_, _, _)
contains_from(rs, other, i) ==
    IF i > Len(rs) THEN FALSE
    ELSE IF rs[i].url = other.url THEN TRUE
    ELSE contains_from(rs, other, i + 1)

FeroxResponses_contains(rs, other) == contains_from(rs, other, 1)

InitRegistry ==
    /\ scans = <<>>
    /\ scan = [h \in Handles |-> NoScan]
    /\ nscans = 0
    /\ scans_lock = 0
    /\ scan_lock = [h \in Handles |-> 0]
    /\ pc = [w \in Workers |-> "idle"]
    /\ cand = [w \in Workers |-> 0]
    /\ idx = [w \in Workers |-> 0]
    /\ sentry = [w \in Workers |-> FALSE]
    /\ pre = [w \in Workers |-> <<>>]

InitPause ==
    /\ PAUSE_SCAN = FALSE
    /\ INTERACTIVE_BARRIER = 0
    /\ SINGLE_SPINNER = "new"
    /\ ppc = [w \in Pausers |-> "idle"]
    /\ get_user_input = [w \in Pausers |-> FALSE]
    /\ prompter = [w \in Pausers |-> FALSE]
    /\ renew = [w \in Pausers |-> FALSE]
    /\ interval = [w \in Pausers |-> "due"]
    /\ setSince = [w \in Pausers |-> FALSE]

NoSnap == [scans |-> <<>>, responses |-> <<>>]

NothingRestored == [scans |-> <<>>, responses |-> <<>>]

\* nothing of a snapshot or a resume has happened
InitRest ==
    /\ hpc = "idle"
    /\ hidx = 0
    /\ snap = NoSnap
    /\ file = NoFile
    /\ seen = {}
    /\ rpc = "off"
    /\ ridx = 0
    /\ config = TheConfiguration
    /\ restored = NothingRestored
    /\ dpos = 0
    /\ requests = <<>>
    /\ output = <<>>

\* a process started without --resume-from: empty registry, empty cache
\* a u64, and the exact numbers the claims compare it with: six limbs of 16
\* bits, the least significant first; a u64 has the two high limbs zero
Limb == 65536
NumLimbs == 6
U64Limbs == 4
Zero == [i \in 1..NumLimbs |-> 0]

\* sigint_handler has not been called while it was running
NoSecond == [hpc |-> "idle", snap |-> NoSnap, file |-> NoFile]

\* the process was started without --time-limit
NoLimit ==
    /\ tpc = "off"
    /\ time_spec = [length |-> Zero, unit |-> "s"]
    /\ length_in_secs = Zero
    /\ elapsed = Zero
    /\ invoked = 0
    /\ second = NoSecond

\* no call yet, no lock poisoned
NoCall == [op |-> "none"]
NoRet == [ok |-> TRUE]
NoCalls ==
    /\ call = NoCall
    /\ ret = NoRet
    /\ poisoned = {}

Init == InitRegistry /\ responses = <<>> /\ InitPause /\ InitRest /\ NoLimit /\ NoCalls

(***************************************************************************)
(* FeroxScans::add_scan and FeroxScans::insert, one step per lock          *)
(* operation.                                                              *)
(***************************************************************************)
\* add_scan up to its call of insert: build the bar, create the FeroxScan
add_scan(w, url, scan_type) ==
    /\ pc[w] = "idle"
    /\ nscans < MaxScans
    /\ LET h == nscans + 1
           bar == IF scan_type = Directory THEN BarRunning ELSE NoBar
       IN /\ scan' = [scan EXCEPT ![h] = NewScan(Uuid(h, rpc # "off"), url, scan_type, bar)]
          /\ nscans' = h
          /\ cand' = [cand EXCEPT ![w] = h]
    /\ pre' = [pre EXCEPT ![w] = View(scans)]
    /\ pc' = [pc EXCEPT ![w] = "insert"]
    /\ UNCHANGED <<scans, scans_lock, scan_lock, idx, sentry>>

add_directory_scan(w, url) == add_scan(w, url, Directory)

add_file_scan(w, url) == add_scan(w, url, File)

\* insert called with a handle that is already stored (from get_scan_by_url)
insert_stored(w, h) ==
    /\ pc[w] = "idle"
    /\ \E i \in 1..Len(scans) : scans[i] = h
    /\ cand' = [cand EXCEPT ![w] = h]
    /\ pre' = [pre EXCEPT ![w] = View(scans)]
    /\ pc' = [pc EXCEPT ![w] = "insert"]
    /\ UNCHANGED <<scans, scan, nscans, scans_lock, scan_lock, idx, sentry>>

\* insert: scan.lock()
insert_lock_scan(w) ==
    /\ pc[w] = "insert"
    /\ scan_lock[cand[w]] = 0
    /\ scan_lock' = [scan_lock EXCEPT ![cand[w]] = w]
    /\ pc' = [pc EXCEPT ![w] = "contains"]
    /\ UNCHANGED <<scans, scan, nscans, scans_lock, cand, idx, sentry, pre>>

\* contains: self.scans.lock()
contains_lock(w) ==
    /\ pc[w] = "contains"
    /\ scans_lock = 0
    /\ scans_lock' = w
    /\ idx' = [idx EXCEPT ![w] = 1]
    /\ pc' = [pc EXCEPT ![w] = "iter"]
    /\ UNCHANGED <<scans, scan, nscans, scan_lock, cand, sentry, pre>>

\* the comparison inside contains' loop
UrlMatches(h, url) == scan[h].url = url

\* insert's sentry: the negation of what contains returned
Sentry(found) == ~found

\* contains: one iteration.  scan.lock() on the entry blocks while another
\* holder has it (a std Mutex is not reentrant: the holder itself blocks too);
\* the guard is dropped at the end of the iteration.  A match returns true:
\* the collection guard is dropped, then insert drops the candidate's guard.
contains_iter(w) ==
    /\ pc[w] = "iter"
    /\ idx[w] <= Len(scans)
    /\ scan_lock[scans[idx[w]]] = 0
    /\ IF UrlMatches(scans[idx[w]], scan[cand[w]].url)
       THEN /\ scans_lock' = 0
            /\ scan_lock' = [scan_lock EXCEPT ![cand[w]] = 0]
            /\ sentry' = [sentry EXCEPT ![w] = Sentry(TRUE)]
            /\ pc' = [pc EXCEPT ![w] = "sentry"]
            /\ idx' = [idx EXCEPT ![w] = 0]
       ELSE /\ idx' = [idx EXCEPT ![w] = idx[w] + 1]
            /\ UNCHANGED <<scans_lock, scan_lock, sentry, pc>>
    /\ UNCHANGED <<scans, scan, nscans, cand, pre>>

\* contains: the loop ends without a match and false is returned
contains_end(w) ==
    /\ pc[w] = "iter"
    /\ idx[w] > Len(scans)
    /\ scans_lock' = 0
    /\ scan_lock' = [scan_lock EXCEPT ![cand[w]] = 0]
    /\ sentry' = [sentry EXCEPT ![w] = Sentry(FALSE)]
    /\ pc' = [pc EXCEPT ![w] = "sentry"]
    /\ idx' = [idx EXCEPT ![w] = 0]
    /\ UNCHANGED <<scans, scan, nscans, cand, pre>>

\* a push at the front instead of the end
PushFront(s, h) == <<h>> \o s

\* scans.push(scan)
Push(s, h) == Append(s, h)

\* insert: if sentry { self.scans.lock(); scans.push(scan) }
insert_push(w) ==
    /\ pc[w] = "sentry"
    /\ sentry[w]
    /\ scans_lock = 0
    /\ scans' = Push(scans, cand[w])
    /\ pc' = [pc EXCEPT ![w] = "returned"]
    /\ UNCHANGED <<scan, nscans, scans_lock, scan_lock, cand, idx, sentry, pre>>

\* insert: sentry is false, nothing is pushed
insert_skip(w) ==
    /\ pc[w] = "sentry"
    /\ ~sentry[w]
    /\ pc' = [pc EXCEPT ![w] = "returned"]
    /\ UNCHANGED <<scans, scan, nscans, scans_lock, scan_lock, cand, idx, sentry, pre>>

\* the caller takes insert's result (sentry) and goes on
insert_return(w) ==
    /\ pc[w] = "returned"
    /\ pc' = [pc EXCEPT ![w] = "idle"]
    /\ cand' = [cand EXCEPT ![w] = 0]
    /\ sentry' = [sentry EXCEPT ![w] = FALSE]
    /\ pre' = [pre EXCEPT ![w] = <<>>]
    /\ UNCHANGED <<scans, scan, nscans, scans_lock, scan_lock, idx>>

\* the driver marks a scan complete: scan.lock().unwrap().finish()
finish_scan(h) ==
    /\ scan[h] # NoScan
    /\ ~scan[h].complete
    /\ scan_lock[h] = 0
    /\ scan' = [scan EXCEPT ![h] = finish(scan[h])]
    /\ UNCHANGED <<scans, nscans, scans_lock, scan_lock, pc, cand, idx, sentry, pre>>

insert(w) ==
    \/ insert_lock_scan(w)
    \/ contains_lock(w)
    \/ contains_iter(w)
    \/ contains_end(w)
    \/ insert_push(w)
    \/ insert_skip(w)
    \/ insert_return(w)

(***************************************************************************)
(* FeroxScans::pause, one step per access to shared state.                 *)
(***************************************************************************)
\* pause is called: time::interval is created, its first tick is immediate
pause_call(w, gui) ==
    /\ ppc[w] = "idle"
    /\ ppc' = [ppc EXCEPT ![w] = "barrier"]
    /\ get_user_input' = [get_user_input EXCEPT ![w] = gui]
    /\ interval' = [interval EXCEPT ![w] = "due"]
    /\ setSince' = [setSince EXCEPT ![w] = PAUSE_SCAN]
    /\ UNCHANGED <<PAUSE_SCAN, INTERACTIVE_BARRIER, SINGLE_SPINNER, prompter, renew>>

\* the test of `INTERACTIVE_BARRIER.load(Ordering::Relaxed) == 0`
BarrierOpen(b) == b = 0

\* if INTERACTIVE_BARRIER.load(Relaxed) == 0
pause_barrier_load(w) ==
    /\ ppc[w] = "barrier"
    /\ IF BarrierOpen(INTERACTIVE_BARRIER)
       THEN /\ ppc' = [ppc EXCEPT ![w] = "add"]
            /\ UNCHANGED get_user_input
       ELSE /\ ppc' = [ppc EXCEPT ![w] = "spinner"]
            /\ get_user_input' = [get_user_input EXCEPT ![w] = FALSE]
    /\ UNCHANGED <<PAUSE_SCAN, INTERACTIVE_BARRIER, SINGLE_SPINNER, prompter, renew,
                   interval, setSince>>

\* INTERACTIVE_BARRIER.fetch_add(1, Relaxed); with get_user_input the caller
\* then calls display_scans and blocks in stdin().read_line()
pause_barrier_add(w) ==
    /\ ppc[w] = "add"
    /\ INTERACTIVE_BARRIER' = INTERACTIVE_BARRIER + 1
    /\ prompter' = [prompter EXCEPT ![w] = TRUE]
    /\ ppc' = [ppc EXCEPT ![w] = IF get_user_input[w] THEN "read_line" ELSE "spinner"]
    /\ get_user_input' = [get_user_input EXCEPT ![w] = FALSE]
    /\ UNCHANGED <<PAUSE_SCAN, SINGLE_SPINNER, renew, interval, setSince>>

\* the operator enters a line: read_line returns, the line is discarded
pause_read_line(w) ==
    /\ ppc[w] = "read_line"
    /\ ppc' = [ppc EXCEPT ![w] = "spinner"]
    /\ UNCHANGED <<PAUSE_SCAN, INTERACTIVE_BARRIER, SINGLE_SPINNER, get_user_input,
                   prompter, renew, interval, setSince>>

\* SINGLE_SPINNER.read().unwrap().is_finished()
pause_spinner_check(w) ==
    /\ ppc[w] = "spinner"
    /\ renew' = [renew EXCEPT ![w] = (SINGLE_SPINNER = "finished")]
    /\ ppc' = [ppc EXCEPT ![w] = "start"]
    /\ UNCHANGED <<PAUSE_SCAN, INTERACTIVE_BARRIER, SINGLE_SPINNER, get_user_input,
                   prompter, interval, setSince>>

\* *guard = get_single_spinner() when it was finished; enable_steady_tick(120)
pause_spinner_start(w) ==
    /\ ppc[w] = "start"
    /\ SINGLE_SPINNER' = IF renew[w] \/ SINGLE_SPINNER # "finished"
                         THEN "ticking" ELSE "finished"
    /\ renew' = [renew EXCEPT ![w] = FALSE]
    /\ ppc' = [ppc EXCEPT ![w] = "tick"]
    /\ UNCHANGED <<PAUSE_SCAN, INTERACTIVE_BARRIER, get_user_input, prompter, interval,
                   setSince>>

\* an exit test that lets the loop end whatever the flag is
ExitAtOnce(flag) == TRUE

\* an exit test with the flag's sense inverted
ExitWhileSet(flag) == flag

\* the loop's exit test: `!PAUSE_SCAN.load(Ordering::Acquire)`
ExitLoop(flag) == ~flag

\* interval.tick().await completes and PAUSE_SCAN is loaded
pause_poll(w) ==
    /\ ppc[w] = "tick"
    /\ interval[w] = "due"
    /\ interval' = [interval EXCEPT ![w] = "armed"]
    /\ ppc' = [ppc EXCEPT ![w] = IF ExitLoop(PAUSE_SCAN) THEN "exit" ELSE "tick"]
    /\ UNCHANGED <<PAUSE_SCAN, INTERACTIVE_BARRIER, SINGLE_SPINNER, get_user_input,
                   prompter, renew, setSince>>

\* SLEEP_DURATION milliseconds pass since the caller's last tick
interval_elapses(w) ==
    /\ ppc[w] = "tick"
    /\ interval[w] = "armed"
    /\ interval' = [interval EXCEPT ![w] = "due"]
    /\ UNCHANGED <<PAUSE_SCAN, INTERACTIVE_BARRIER, SINGLE_SPINNER, ppc, get_user_input,
                   prompter, renew, setSince>>

\* if INTERACTIVE_BARRIER.load(Relaxed) == 1
pause_exit_load(w) ==
    /\ ppc[w] = "exit"
    /\ ppc' = [ppc EXCEPT ![w] = IF INTERACTIVE_BARRIER = 1 THEN "sub" ELSE "clear"]
    /\ UNCHANGED <<PAUSE_SCAN, INTERACTIVE_BARRIER, SINGLE_SPINNER, get_user_input,
                   prompter, renew, interval, setSince>>

\* INTERACTIVE_BARRIER.fetch_sub(1, Relaxed): 0 - 1 wraps to usize::MAX, the
\* residue of -1
pause_exit_sub(w) ==
    /\ ppc[w] = "sub"
    /\ INTERACTIVE_BARRIER' = INTERACTIVE_BARRIER - 1
    /\ ppc' = [ppc EXCEPT ![w] = "clear"]
    /\ UNCHANGED <<PAUSE_SCAN, SINGLE_SPINNER, get_user_input, prompter, renew,
                   interval, setSince>>

\* spinner.finish_and_clear(); return
pause_exit_spinner(w) ==
    /\ ppc[w] = "clear"
    /\ SINGLE_SPINNER' = "finished"
    /\ ppc' = [ppc EXCEPT ![w] = "returned"]
    /\ UNCHANGED <<PAUSE_SCAN, INTERACTIVE_BARRIER, get_user_input, prompter, renew,
                   interval, setSince>>

\* the caller goes on with its work
pause_return(w) ==
    /\ ppc[w] = "returned"
    /\ ppc' = [ppc EXCEPT ![w] = "idle"]
    /\ prompter' = [prompter EXCEPT ![w] = FALSE]
    /\ interval' = [interval EXCEPT ![w] = "due"]
    /\ setSince' = [setSince EXCEPT ![w] = FALSE]
    /\ UNCHANGED <<PAUSE_SCAN, INTERACTIVE_BARRIER, SINGLE_SPINNER, get_user_input, renew>>

\* the steps of pause that need nothing but the scheduler
pause(w) ==
    \/ pause_barrier_load(w)
    \/ pause_barrier_add(w)
    \/ pause_spinner_check(w)
    \/ pause_spinner_start(w)
    \/ pause_poll(w)
    \/ pause_exit_load(w)
    \/ pause_exit_sub(w)
    \/ pause_exit_spinner(w)
    \/ pause_return(w)

\* another task stores true into PAUSE_SCAN
set_pause ==
    /\ ~PAUSE_SCAN
    /\ PAUSE_SCAN' = TRUE
    /\ UNCHANGED <<INTERACTIVE_BARRIER, SINGLE_SPINNER, ppc, get_user_input, prompter,
                   renew, interval, setSince>>

\* another task stores false into PAUSE_SCAN
clear_pause ==
    /\ PAUSE_SCAN
    /\ PAUSE_SCAN' = FALSE
    /\ setSince' = [w \in Pausers |-> FALSE]
    /\ UNCHANGED <<INTERACTIVE_BARRIER, SINGLE_SPINNER, ppc, get_user_input, prompter,
                   renew, interval>>

(***************************************************************************)
(* The response cache.                                                     *)
(***************************************************************************)
\* a worker caches the response of a probe: RESPONSES.insert(response)
response_insert(r) ==
    /\ Len(responses) < MaxResponses
    /\ responses' = FeroxResponses_insert(responses, r)

(***************************************************************************)
(* sigint_handler, on the ctrlc thread or after the time limit: one step   *)
(* per lock operation of the serialization of FeroxState.                  *)
(***************************************************************************)
\* the handler is invoked: the file name is computed and the notice printed
sigint_begin ==
    /\ hpc = "idle"
    /\ hpc' = "open"
    /\ seen' = {Live}
    /\ UNCHANGED <<hidx, snap, file>>
    /\ UNCHANGED regVars

\* a handler that returns to its caller when the file cannot be opened
ReturnUnlessOpened(opened) == IF opened THEN "scans" ELSE "idle"

\* `if let Some(buffered_file) = state_file`: the state is written only to a
\* file that was opened; std::process::exit(1) follows in both cases
AfterOpen(opened) == IF opened THEN "scans" ELSE "exited"

\* open_file(&filename): Some(buffered_file) or None
sigint_open(opened) ==
    /\ hpc = "open"
    /\ hpc' = AfterOpen(opened)
    /\ UNCHANGED <<hidx, snap, file, seen>>
    /\ UNCHANGED regVars

\* Serialize for FeroxScans: self.scans.lock()
sigint_lock_scans ==
    /\ hpc = "scans"
    /\ scans_lock = 0
    /\ scans_lock' = CtrlcThread
    /\ hidx' = 1
    /\ hpc' = "iter"
    /\ UNCHANGED <<snap, file, seen>>
    /\ UNCHANGED <<scans, scan, nscans, scan_lock, pc, cand, idx, sentry, pre>>

\* Serialize for FeroxScans: scan.lock() and seq.serialize_element(&*unlocked)
sigint_serialize_scan ==
    /\ hpc = "iter"
    /\ hidx <= Len(scans)
    /\ scan_lock[scans[hidx]] = 0
    /\ snap' = [snap EXCEPT !.scans = Append(@, FeroxScan_serialize(scan[scans[hidx]]))]
    /\ hidx' = hidx + 1
    /\ UNCHANGED <<hpc, file, seen>>
    /\ UNCHANGED regVars

\* Serialize for FeroxScans: seq.end(), the collection's guard is dropped
sigint_scans_end ==
    /\ hpc = "iter"
    /\ hidx > Len(scans)
    /\ scans_lock' = 0
    /\ hidx' = 0
    /\ hpc' = "responses"
    /\ UNCHANGED <<snap, file, seen>>
    /\ UNCHANGED <<scans, scan, nscans, scan_lock, pc, cand, idx, sentry, pre>>

\* Serialize for FeroxResponses, under self.responses.read()
sigint_serialize_responses ==
    /\ hpc = "responses"
    /\ snap' = [snap EXCEPT !.responses = FeroxResponses_serialize(responses).v]
    /\ hpc' = "write"
    /\ UNCHANGED <<hidx, file, seen>>
    /\ UNCHANGED regVars

\* safe_file_write writes the JSON; std::process::exit(1)
sigint_write_exit ==
    /\ hpc = "write"
    /\ file' = FeroxState_serialize(JArr(snap.scans), Configuration_serialize(config),
                                    JArr(snap.responses))
    /\ hpc' = "exited"
    /\ UNCHANGED <<hidx, snap, seen>>
    /\ UNCHANGED regVars

\* the handler after it has been invoked
sigint_handler ==
    \/ \E opened \in BOOLEAN : sigint_open(opened)
    \/ sigint_lock_scans
    \/ sigint_serialize_scan
    \/ sigint_scans_end
    \/ sigint_serialize_responses
    \/ sigint_write_exit

(***************************************************************************)
(* resume_scan, in a process started with --resume-from.                   *)
(***************************************************************************)
\* the process has exited; a new one is started on the state file
restart ==
    /\ hpc = "exited"
    /\ rpc = "off"
    /\ scans' = <<>>
    /\ scan' = [h \in Handles |-> NoScan]
    /\ nscans' = 0
    /\ scans_lock' = 0
    /\ scan_lock' = [h \in Handles |-> 0]
    /\ pc' = [w \in Workers |-> "idle"]
    /\ cand' = [w \in Workers |-> 0]
    /\ idx' = [w \in Workers |-> 0]
    /\ sentry' = [w \in Workers |-> FALSE]
    /\ pre' = [w \in Workers |-> <<>>]
    /\ responses' = <<>>
    /\ rpc' = "open"
    /\ UNCHANGED <<ridx, config, restored, dpos, requests, output>>

\* File::open(filename) and serde_json::from_reader(reader).unwrap()
resume_open ==
    /\ rpc = "open"
    /\ rpc' = CASE file = NoFile -> "exit1"
                [] file = NotJson -> "panic"
                [] OTHER -> "config"
    /\ UNCHANGED <<ridx, config, restored, dpos, requests, output>>
    /\ UNCHANGED <<regVars, responses>>

\* a resume that goes on with a default Configuration whatever the file holds
ConfigDefaulted(missing, ok) == "responses"

\* where resume_scan stands after the "config" member: std::process::exit(1)
\* when the member is missing or does not deserialize
AfterConfig(missing, ok) == IF missing \/ ~ok THEN "exit1" ELSE "responses"

\* state.get("config") and serde_json::from_value(conf.clone())
resume_config ==
    /\ rpc = "config"
    /\ LET conf == Value_get(file, "config")
           r == Configuration_deserialize(conf)
           next == AfterConfig(conf = Absent, r.ok)
       IN /\ rpc' = next
          /\ IF next = "exit1"
             THEN UNCHANGED <<ridx, config>>
             ELSE /\ ridx' = 1
                  /\ config' = IF r.ok THEN r.config ELSE TheConfiguration
    /\ UNCHANGED <<restored, dpos, requests, output>>
    /\ UNCHANGED <<regVars, responses>>

\* a loop that stops at the first element that fails to deserialize
StopAtBadResponse(i, n, ok) == IF ok THEN i + 1 ELSE n + 1

\* the responses loop goes on to the next element, deserialized or not
NextResponse(i, n, ok) == i + 1

ResponsesArray == as_array(Value_get(file, "responses"))

\* one iteration of `for response in arr_responses`
resume_response ==
    /\ rpc = "responses"
    /\ ResponsesArray # Absent
    /\ ridx <= Len(ResponsesArray.v)
    /\ LET r == FeroxResponse_deserialize(ResponsesArray.v[ridx])
       IN /\ responses' = IF r.ok THEN FeroxResponses_insert(responses, r.response)
                          ELSE responses
          /\ ridx' = NextResponse(ridx, Len(ResponsesArray.v), r.ok)
    /\ UNCHANGED <<rpc, config, restored, dpos, requests, output>>
    /\ UNCHANGED regVars

\* there is no `responses` array, or the loop over it has ended
resume_responses_end ==
    /\ rpc = "responses"
    /\ IF ResponsesArray = Absent THEN TRUE ELSE ridx > Len(ResponsesArray.v)
    /\ rpc' = "scans"
    /\ ridx' = 1
    /\ UNCHANGED <<responses, config, restored, dpos, requests, output>>
    /\ UNCHANGED regVars

ScansArray == as_array(Value_get(file, "scans"))

\* one iteration of `for scan in arr_scans`, up to the call of
\* SCANNED_URLS.insert(Arc::new(Mutex::new(deser_scan)))
resume_scan_element ==
    /\ rpc = "scans"
    /\ pc[Main] = "idle"
    /\ ScansArray # Absent
    /\ ridx <= Len(ScansArray.v)
    /\ nscans < MaxScans
    /\ LET h == nscans + 1
       IN /\ scan' = [scan EXCEPT ![h] = ScanFromValue(ScansArray.v[ridx], Uuid(h, TRUE))]
          /\ nscans' = h
          /\ cand' = [cand EXCEPT ![Main] = h]
    /\ pre' = [pre EXCEPT ![Main] = View(scans)]
    /\ pc' = [pc EXCEPT ![Main] = "insert"]
    /\ ridx' = ridx + 1
    /\ UNCHANGED <<scans, scans_lock, scan_lock, idx, sentry>>
    /\ UNCHANGED <<rpc, config, restored, dpos, requests, output, responses>>

\* there is no `scans` array, or the loop over it has ended: config is returned
resume_return ==
    /\ rpc = "scans"
    /\ pc[Main] = "idle"
    /\ IF ScansArray = Absent THEN TRUE ELSE ridx > Len(ScansArray.v)
    /\ rpc' = "done"
    /\ ridx' = 0
    /\ restored' = Live
    /\ dpos' = 1
    /\ UNCHANGED <<config, requests, output>>
    /\ UNCHANGED <<regVars, responses>>

\* SCANNED_URLS.insert inside the scans loop
resume_insert ==
    /\ rpc = "scans"
    /\ insert(Main)
    /\ UNCHANGED <<resVars, responses>>

resume_scan ==
    \/ resume_open
    \/ resume_config
    \/ resume_response
    \/ resume_responses_end
    \/ resume_scan_element
    \/ resume_insert
    \/ resume_return

(***************************************************************************)
(* The driver's pass after resume_scan (the scanner is outside             *)
(* scan_manager.rs): every Directory scan that is not complete is scanned  *)
(* with the wordlist, and a response is reported unless the cache holds    *)
(* its url.                                                                *)
(***************************************************************************)
\* the scans the driver has to run
ToScan(view) == SelectSeq(view, LAMBDA s : s.scan_type = Directory /\ ~s.complete)

\* the requests of the pass, in order
DriverPlan(view) ==
    LET d == ToScan(view)
        n == Len(Wordlist)
    IN [k \in 1..(Len(d) * n) |-> <<d[((k - 1) \div n) + 1].url, Wordlist[((k - 1) % n) + 1]>>]

driver_request ==
    /\ rpc = "done"
    /\ dpos <= Len(DriverPlan(View(scans)))
    /\ LET req == DriverPlan(View(scans))[dpos]
           resp == ResponseOf(req[1] \o req[2])
       IN /\ requests' = Append(requests, req)
          /\ IF FeroxResponses_contains(responses, resp)
             THEN UNCHANGED <<output, responses>>
             ELSE /\ output' = Append(output, resp.url)
                  /\ responses' = FeroxResponses_insert(responses, resp)
    /\ dpos' = dpos + 1
    /\ UNCHANGED <<rpc, ridx, config, restored>>
    /\ UNCHANGED regVars

driver_done ==
    /\ rpc = "done"
    /\ dpos > Len(DriverPlan(View(scans)))
    /\ rpc' = "driven"
    /\ UNCHANGED <<responses, ridx, config, restored, dpos, requests, output>>
    /\ UNCHANGED regVars

driver ==
    \/ driver_request
    \/ driver_done


(***************************************************************************)
(* start_max_time_thread: the time limit.                                  *)
(***************************************************************************)
\* the carry out of limb i of x * k
RECURSIVE Carry(_, _, _)
Carry(x, k, i) == IF i = 0 THEN 0 ELSE (x[i] * k + Carry(x, k, i - 1)) \div Limb

\* the exact product x * k of a number and a small factor
Mul(x, k) == [i \in 1..NumLimbs |-> (x[i] * k + Carry(x, k, i - 1)) % Limb]

\* x is the value of a u64
Fits(x) == \A i \in (U64Limbs + 1)..NumLimbs : x[i] = 0

\* x modulo 2^64
Wrap(x) == [i \in 1..NumLimbs |-> IF i <= U64Limbs THEN x[i] ELSE 0]

\* x < y
Less(x, y) ==
    \E i \in 1..NumLimbs : x[i] < y[i] /\ \A j \in (i + 1)..NumLimbs : x[j] = y[j]

\* a parser that keeps the low 64 bits of a number that does not fit
parse_wrapping(digits) == [ok |-> TRUE, value |-> Wrap(digits)]

\* str::parse::<u64>(): Err when the number does not fit a u64
parse_u64(digits) == [ok |-> Fits(digits), value |-> digits]

\* str::to_ascii_lowercase of the unit
to_ascii_lowercase(unit) ==
    CASE unit = "S" -> "s" [] unit = "M" -> "m" [] unit = "H" -> "h"
      [] unit = "D" -> "d" [] OTHER -> unit

\* the factors of the match on the unit: length, length * 60,
\* length * 60 * 60, length * 60 * 60 * 24
Factors(unit) ==
    CASE to_ascii_lowercase(unit) = "m" -> <<60>>
      [] to_ascii_lowercase(unit) = "h" -> <<60, 60>>
      [] to_ascii_lowercase(unit) = "d" -> <<60, 60, 24>>
      [] OTHER -> <<>>

\* the u64 products of the match, one `*` after the other: the value modulo
\* 2^64 and whether some product overflowed
RECURSIVE Times(_, _)
Times(length, ks) ==
    IF ks = <<>>
    THEN [overflow |-> FALSE, value |-> length]
    ELSE LET rest == Times(Wrap(Mul(length, Head(ks))), Tail(ks))
         IN [overflow |-> ~Fits(Mul(length, Head(ks))) \/ rest.overflow,
             value |-> rest.value]

\* the numeric parts and units of the specs: 0, 3, the largest number of
\* minutes whose seconds fit a u64 and the number after it, the first number
\* of hours and of days whose seconds do not fit, u64::MAX and 2^64
Lengths ==
    { Zero,
      <<3, 0, 0, 0, 0, 0>>,
      <<17476, 17476, 17476, 1092, 0, 0>>,
      <<17477, 17476, 17476, 1092, 0, 0>>,
      <<48352, 30874, 13398, 18, 0, 0>>,
      <<29322, 17670, 49710, 0, 0, 0>>,
      <<65535, 65535, 65535, 65535, 0, 0>>,
      <<0, 0, 0, 0, 1, 0>> }

Units == {"s", "m", "h", "d", "M"}

TimeSpecs == [length : Lengths, unit : Units]

\* the call, up to the delay: the parse, the conversion to seconds (a product
\* that overflows panics in a build with overflow checks and wraps in one
\* without), or the error logged and the return
limit_parse ==
    /\ tpc = "called"
    /\ LET length == parse_u64(time_spec.length)
           secs == Times(length.value, Factors(time_spec.unit))
       IN IF length.ok
          THEN \E overflow_checks \in BOOLEAN :
                  IF secs.overflow /\ overflow_checks
                  THEN tpc' = "panicked" /\ UNCHANGED length_in_secs
                  ELSE tpc' = "sleeping" /\ length_in_secs' = secs.value
          ELSE tpc' = "returned" /\ UNCHANGED length_in_secs
    /\ UNCHANGED <<time_spec, elapsed, invoked, second>>
    /\ UNCHANGED <<regVars, sigVars>>

\* time::delay_for(Duration::new(length_in_secs, 0)).await is over, and
\* sigint_handler() is called
limit_expire ==
    /\ tpc = "sleeping"
    /\ tpc' = "fired"
    /\ elapsed' = length_in_secs
    /\ invoked' = invoked + 1
    /\ sigint_begin
    /\ UNCHANGED <<time_spec, length_in_secs, second>>

start_max_time_thread == limit_parse \/ limit_expire
(***************************************************************************)
(* Specifications.                                                         *)
(***************************************************************************)
\* worker tasks call into the registry concurrently
Next ==
    \/ \E w \in Workers, url \in Urls :
          add_directory_scan(w, url) /\ UNCHANGED <<responses, pauseVars, limitVars, callVars, sigVars, resVars>>
    \/ \E w \in Workers, url \in Urls :
          add_file_scan(w, url) /\ UNCHANGED <<responses, pauseVars, limitVars, callVars, sigVars, resVars>>
    \/ \E w \in Workers, h \in Handles :
          insert_stored(w, h) /\ UNCHANGED <<responses, pauseVars, limitVars, callVars, sigVars, resVars>>
    \/ \E w \in Workers :
          insert(w) /\ UNCHANGED <<responses, pauseVars, limitVars, callVars, sigVars, resVars>>

Spec == Init /\ [][Next]_vars

\* the driver marks a scan complete between two calls of the single caller
finish_between_calls(h) == pc[Main] = "idle" /\ finish_scan(h)

\* a single caller
NextSeq ==
    \/ \E url \in Urls :
          add_directory_scan(Main, url) /\ UNCHANGED <<responses, pauseVars, limitVars, callVars, sigVars, resVars>>
    \/ \E url \in Urls :
          add_file_scan(Main, url) /\ UNCHANGED <<responses, pauseVars, limitVars, callVars, sigVars, resVars>>
    \/ \E h \in Handles :
          insert_stored(Main, h) /\ UNCHANGED <<responses, pauseVars, limitVars, callVars, sigVars, resVars>>
    \/ insert(Main) /\ UNCHANGED <<responses, pauseVars, limitVars, callVars, sigVars, resVars>>
    \/ \E h \in Handles :
          finish_between_calls(h) /\ UNCHANGED <<responses, pauseVars, limitVars, callVars, sigVars, resVars>>

SpecSeq == Init /\ [][NextSeq]_vars

\* the single caller's thread is scheduled whenever its call of insert can
\* take a step
FairSeq ==
    /\ SpecSeq
    /\ WF_vars(insert(Main) /\ UNCHANGED <<responses, pauseVars, limitVars, callVars, sigVars, resVars>>)

\* tasks call pause while other tasks set and clear PAUSE_SCAN
NextPause ==
    \/ \E w \in Pausers, gui \in BOOLEAN :
          pause_call(w, gui) /\ UNCHANGED <<regVars, responses, sigVars, resVars, limitVars, callVars>>
    \/ \E w \in Pausers :
          pause(w) /\ UNCHANGED <<regVars, responses, sigVars, resVars, limitVars, callVars>>
    \/ \E w \in Pausers :
          pause_read_line(w) /\ UNCHANGED <<regVars, responses, sigVars, resVars, limitVars, callVars>>
    \/ \E w \in Pausers :
          interval_elapses(w) /\ UNCHANGED <<regVars, responses, sigVars, resVars, limitVars, callVars>>
    \/ set_pause /\ UNCHANGED <<regVars, responses, sigVars, resVars, limitVars, callVars>>
    \/ clear_pause /\ UNCHANGED <<regVars, responses, sigVars, resVars, limitVars, callVars>>

SpecPause == Init /\ [][NextPause]_vars

\* the runtime schedules every task that is ready and every interval elapses;
\* the operator's line on stdin is not guaranteed to come
FairPause ==
    /\ SpecPause
    /\ \A w \in Pausers : WF_pauseVars(pause(w))
    /\ \A w \in Pausers : WF_pauseVars(interval_elapses(w))

\* a resumed process is started on a state file some other run left
InitFile ==
    /\ InitRegistry
    /\ responses = <<>>
    /\ InitPause
    /\ hpc = "exited"
    /\ hidx = 0
    /\ snap = NoSnap
    /\ file \in StateFiles
    /\ NoLimit
    /\ NoCalls
    /\ seen = {}
    /\ rpc = "open"
    /\ ridx = 0
    /\ config = TheConfiguration
    /\ restored = NothingRestored
    /\ dpos = 0
    /\ requests = <<>>
    /\ output = <<>>

\* the scan of the first process, until the handler is invoked
scanning ==
    /\ hpc = "idle"
    /\ rpc = "off"
    /\ \/ \E url \in Urls : add_directory_scan(Main, url) /\ UNCHANGED responses
       \/ \E url \in Urls : add_file_scan(Main, url) /\ UNCHANGED responses
       \/ insert(Main) /\ UNCHANGED responses
       \/ \E h \in Handles : finish_between_calls(h) /\ UNCHANGED responses
       \/ \E r \in ResponsePool : response_insert(r) /\ UNCHANGED regVars

\* the handler is invoked while no task is inside the registry
sigint_at_rest == pc[Main] = "idle" /\ sigint_begin

\* a scan is interrupted at rest, its state written, and a second process
\* resumes from the file; or a process resumes from a file it is given
NextResume ==
    \/ scanning /\ UNCHANGED <<pauseVars, limitVars, callVars, sigVars, resVars>>
    \/ sigint_at_rest /\ UNCHANGED <<responses, pauseVars, limitVars, callVars, resVars>>
    \/ sigint_handler /\ UNCHANGED <<responses, pauseVars, limitVars, callVars, resVars>>
    \/ restart /\ UNCHANGED <<pauseVars, limitVars, callVars, sigVars>>
    \/ resume_scan /\ UNCHANGED <<pauseVars, limitVars, callVars, sigVars>>
    \/ driver /\ UNCHANGED <<regVars, pauseVars, limitVars, callVars, sigVars>>

SpecResume == (Init \/ InitFile) /\ [][NextResume]_vars

\* the handler's history: every (registry, cache) pair that was live while it ran
Observe == seen' = IF hpc \in {"idle", "exited"} THEN seen ELSE seen \cup {Live'}

\* the response of a probe the worker task caches
Probed == ResponseOf(<<"B", "css">>)

\* what a worker task does while the process runs: it registers Directory
\* scans, marks scans complete and caches a response
working(w) ==
    /\ hpc # "exited"
    /\ \/ \E url \in Urls : add_directory_scan(w, url) /\ UNCHANGED responses
       \/ insert(w) /\ UNCHANGED responses
       \/ \E h \in Handles : finish_scan(h) /\ UNCHANGED responses
       \/ response_insert(Probed) /\ UNCHANGED regVars
    /\ Observe
    /\ UNCHANGED <<hpc, hidx, snap, file>>

\* the handler runs on its own thread while the worker tasks go on
NextSigint ==
    \/ \E w \in Workers : working(w) /\ UNCHANGED <<pauseVars, limitVars, callVars, resVars>>
    \/ sigint_begin /\ UNCHANGED <<responses, pauseVars, limitVars, callVars, resVars>>
    \/ sigint_handler /\ UNCHANGED <<responses, pauseVars, limitVars, callVars, resVars>>

SpecSigint == Init /\ [][NextSigint]_vars

\* the worker tasks without the handler's history
registering(w) ==
    /\ hpc # "exited"
    /\ \/ \E url \in Urls : add_directory_scan(w, url) /\ UNCHANGED responses
       \/ insert(w) /\ UNCHANGED responses
       \/ response_insert(Probed) /\ UNCHANGED regVars
    /\ UNCHANGED <<sigVars, pauseVars, limitVars, callVars, resVars>>

\* the handler runs on its own thread while a worker task goes on
NextHandler ==
    \/ registering(Main)
    \/ sigint_begin /\ UNCHANGED <<responses, pauseVars, limitVars, callVars, resVars>>
    \/ sigint_handler /\ UNCHANGED <<responses, pauseVars, limitVars, callVars, resVars>>

SpecHandler == Init /\ [][NextHandler]_vars

\* the handler's thread is scheduled, and so is the worker task while it is
\* inside insert: a lock that is held is released
FairHandler ==
    /\ SpecHandler
    /\ WF_vars(sigint_handler /\ UNCHANGED <<responses, pauseVars, limitVars, callVars, resVars>>)
    /\ WF_vars(registering(Main) /\ pc[Main] # "idle")

\* a process started with --time-limit
InitLimit ==
    /\ InitRegistry
    /\ responses = <<>>
    /\ InitPause
    /\ InitRest
    /\ tpc = "called"
    /\ time_spec \in TimeSpecs
    /\ length_in_secs = Zero
    /\ elapsed = Zero
    /\ invoked = 0
    /\ second = NoSecond
    /\ NoCalls

\* the time limit's task, and the handler it calls
NextLimit ==
    \/ start_max_time_thread /\ UNCHANGED <<responses, pauseVars, resVars, callVars>>
    \/ sigint_handler /\ UNCHANGED <<responses, pauseVars, resVars, limitVars, callVars>>

SpecLimit == InitLimit /\ [][NextLimit]_vars

\* the responses worker tasks cache and look up: those of the pool and those
\* of the wordlist under each url
Probes == ResponsePool \cup { ResponseOf(u \o w) : u \in Urls, w \in {Wordlist[k] : k \in 1..Len(Wordlist)} }

\* RESPONSES.insert(response), on its own
cache_insert(r) ==
    /\ Len(responses) < MaxCached
    /\ responses' = FeroxResponses_insert(responses, r)
    /\ call' = [op |-> "insert", response |-> r]
    /\ ret' = NoRet
    /\ UNCHANGED poisoned

\* RESPONSES.contains(&other), on its own
cache_contains(other) ==
    /\ call' = [op |-> "contains", response |-> other]
    /\ ret' = [ok |-> TRUE, value |-> FeroxResponses_contains(responses, other)]
    /\ UNCHANGED <<responses, poisoned>>

NextCache ==
    \/ \E r \in Probes :
          cache_insert(r) /\ UNCHANGED <<regVars, pauseVars, sigVars, resVars, limitVars>>
    \/ \E other \in Probes :
          cache_contains(other) /\ UNCHANGED <<regVars, pauseVars, sigVars, resVars, limitVars>>

SpecCache == Init /\ [][NextCache]_vars

\* the FeroxScans a process can hold: ids it drew or restored, with or
\* without a task and a progress bar
SomeScans ==
    [id : {Uuid(1, FALSE), Uuid(2, TRUE), <<"id", 1>>},
     url : Urls \cup {<<>>},
     scan_type : ScanType,
     complete : BOOLEAN,
     task : {"None", "Some(task)"},
     progress_bar : {NoBar, BarRunning, BarFinished}]

\* the scan_type strings of the records of a state file
KindNames ==
    {<<"File">>, <<"Directory">>, <<"Not Correct">>, <<"directory">>, <<"file">>, <<>>}

\* JSON records of a scan, as ferox_scan_deserialize gives them
ScanRecords ==
    { JObj(<< <<"id", JStr(i)>>, <<"url", JStr(u)>>, <<"scan_type", JStr(k)>>,
              <<"complete", JBool(c)>> >>) :
        i \in {<<"id", 1>>}, u \in Urls, k \in KindNames, c \in BOOLEAN }

\* serde_json::to_value(&scan)
scan_serialize(s) ==
    /\ call' = [op |-> "serialize", scan |-> s]
    /\ ret' = [ok |-> TRUE, value |-> FeroxScan_serialize(s)]
    /\ UNCHANGED poisoned

\* serde_json::from_value of what was just serialized
scan_round_trip ==
    /\ call.op = "serialize"
    /\ call' = [op |-> "round_trip", scan |-> call.scan, value |-> ret.value]
    /\ ret' = FeroxScan_deserialize(ret.value, Uuid(1, TRUE))
    /\ UNCHANGED poisoned

\* serde_json::from_value of a record
scan_deserialize(val) ==
    /\ call' = [op |-> "deserialize", value |-> val]
    /\ ret' = FeroxScan_deserialize(val, Uuid(1, TRUE))
    /\ UNCHANGED poisoned

NextSerde ==
    \/ \E s \in SomeScans :
          scan_serialize(s)
              /\ UNCHANGED <<regVars, responses, pauseVars, sigVars, resVars, limitVars>>
    \/ scan_round_trip
           /\ UNCHANGED <<regVars, responses, pauseVars, sigVars, resVars, limitVars>>
    \/ \E val \in ScanRecords :
          scan_deserialize(val)
              /\ UNCHANGED <<regVars, responses, pauseVars, sigVars, resVars, limitVars>>

SpecSerde == Init /\ [][NextSerde]_vars

(***************************************************************************)
(* Poisoned locks: a lock is poisoned when a thread panics while it holds  *)
(* the guard; lock(), read() and write() then return Err.  Each call below *)
(* is a whole call made while no other call is under way.                  *)
(***************************************************************************)
ScansLock == <<"SCANNED_URLS.scans", 0>>
ResponsesLock == <<"RESPONSES.responses", 0>>
SpinnerLock == <<"SINGLE_SPINNER", 0>>
ScanLock(h) == <<"FeroxScan", h>>
Locks == {ScansLock, ResponsesLock, SpinnerLock} \cup {ScanLock(h) : h \in Handles}

\* a thread panics with the guard of lock l
poison(l) ==
    /\ pc[Main] = "idle"
    /\ l \notin poisoned
    /\ l[1] = "FeroxScan" => scan[l[2]] # NoScan
    /\ poisoned' = poisoned \cup {l}
    /\ UNCHANGED <<call, ret>>

\* the registry is filled before any lock is poisoned
filling ==
    /\ poisoned = {}
    /\ \/ \E url \in Urls : add_directory_scan(Main, url) /\ UNCHANGED responses
       \/ insert(Main) /\ UNCHANGED responses
       \/ response_insert(Probed) /\ UNCHANGED regVars

\* FeroxScans::contains: an entry whose lock is poisoned is passed over, a
\* poisoned collection gives false
contains_poisoned(url) ==
    IF ScansLock \in poisoned THEN FALSE
    ELSE \E i \in 1..Len(scans) :
            ScanLock(scans[i]) \notin poisoned /\ scan[scans[i]].url = url

\* FeroxScans::insert of a new scan of url; own: the lock of the scan passed
\* in is poisoned
call_insert(url, own) ==
    /\ pc[Main] = "idle"
    /\ poisoned # {}
    /\ nscans < MaxScans
    /\ LET h == nscans + 1
           sentry0 == IF own THEN FALSE ELSE ~contains_poisoned(url)
           pushed == sentry0 /\ ScansLock \notin poisoned
       IN /\ IF pushed
             THEN /\ scan' = [scan EXCEPT ![h] = NewScan(Uuid(h, FALSE), url, Directory, BarRunning)]
                  /\ nscans' = h
                  /\ scans' = Push(scans, h)
             ELSE UNCHANGED <<scan, nscans, scans>>
          /\ call' = [op |-> "insert", url |-> url]
          /\ ret' = [ok |-> TRUE, hit |-> own \/ ScansLock \in poisoned,
                     value |-> JBool(pushed), mutated |-> pushed]
    /\ UNCHANGED <<scans_lock, scan_lock, pc, cand, idx, sentry, pre, responses, poisoned>>

\* FeroxScans::contains
call_contains(url) ==
    /\ pc[Main] = "idle"
    /\ poisoned # {}
    /\ call' = [op |-> "contains", url |-> url]
    /\ ret' = [ok |-> TRUE, hit |-> ScansLock \in poisoned,
               value |-> JBool(contains_poisoned(url)), mutated |-> FALSE]
    /\ UNCHANGED <<regVars, responses, poisoned>>

\* FeroxScans::get_scan_by_url: the handle of the first entry of that url
call_get_scan_by_url(url) ==
    /\ pc[Main] = "idle"
    /\ poisoned # {}
    /\ call' = [op |-> "get_scan_by_url", url |-> url]
    /\ ret' = [ok |-> TRUE, hit |-> ScansLock \in poisoned,
               value |-> IF contains_poisoned(url)
                         THEN JNum(scans[CHOOSE i \in 1..Len(scans) :
                                      /\ ScanLock(scans[i]) \notin poisoned
                                      /\ scan[scans[i]].url = url
                                      /\ \A j \in 1..(i - 1) :
                                            \/ ScanLock(scans[j]) \in poisoned
                                            \/ scan[scans[j]].url # url])
                         ELSE Absent,
               mutated |-> FALSE]
    /\ UNCHANGED <<regVars, responses, poisoned>>

\* FeroxResponses::insert
call_cache_insert(r) ==
    /\ pc[Main] = "idle"
    /\ poisoned # {}
    /\ Len(responses) < MaxCached
    /\ responses' = IF ResponsesLock \in poisoned THEN responses
                    ELSE FeroxResponses_insert(responses, r)
    /\ call' = [op |-> "cache_insert", response |-> r]
    /\ ret' = [ok |-> TRUE, hit |-> ResponsesLock \in poisoned, value |-> JBool(FALSE),
               mutated |-> ResponsesLock \notin poisoned]
    /\ UNCHANGED <<regVars, poisoned>>

\* FeroxResponses::contains
call_cache_contains(r) ==
    /\ pc[Main] = "idle"
    /\ poisoned # {}
    /\ call' = [op |-> "cache_contains", response |-> r]
    /\ ret' = [ok |-> TRUE, hit |-> ResponsesLock \in poisoned,
               value |-> JBool(IF ResponsesLock \in poisoned THEN FALSE
                                       ELSE FeroxResponses_contains(responses, r)),
               mutated |-> FALSE]
    /\ UNCHANGED <<regVars, responses, poisoned>>

\* Serialize for FeroxScans: the entries whose lock is not poisoned, or the
\* empty list
call_serialize_scans ==
    /\ pc[Main] = "idle"
    /\ poisoned # {}
    /\ call' = [op |-> "serialize_scans"]
    /\ ret' = [ok |-> TRUE, hit |-> ScansLock \in poisoned,
               value |-> IF ScansLock \in poisoned THEN JArr(<<>>)
                         ELSE LET ok == SelectSeq(scans, LAMBDA h : ScanLock(h) \notin poisoned)
                              IN JArr([i \in 1..Len(ok) |-> FeroxScan_serialize(scan[ok[i]])]),
               mutated |-> FALSE]
    /\ UNCHANGED <<regVars, responses, poisoned>>

\* Serialize for FeroxResponses
call_serialize_responses ==
    /\ pc[Main] = "idle"
    /\ poisoned # {}
    /\ call' = [op |-> "serialize_responses"]
    /\ ret' = [ok |-> TRUE, hit |-> ResponsesLock \in poisoned,
               value |-> IF ResponsesLock \in poisoned THEN JArr(<<>>)
                         ELSE FeroxResponses_serialize(responses),
               mutated |-> FALSE]
    /\ UNCHANGED <<regVars, responses, poisoned>>

\* FeroxScans::pause(false) while PAUSE_SCAN is false:
\* SINGLE_SPINNER.read().unwrap() panics on a poisoned lock
call_pause ==
    /\ pc[Main] = "idle"
    /\ poisoned # {}
    /\ call' = [op |-> "pause"]
    /\ ret' = [ok |-> SpinnerLock \notin poisoned, hit |-> SpinnerLock \in poisoned,
               value |-> Absent, mutated |-> FALSE]
    /\ UNCHANGED <<regVars, responses, poisoned>>

NextPoison ==
    \/ filling /\ UNCHANGED <<pauseVars, sigVars, resVars, limitVars, callVars>>
    \/ \E l \in Locks :
          poison(l) /\ UNCHANGED <<regVars, responses, pauseVars, sigVars, resVars, limitVars>>
    \/ \E url \in Urls, own \in BOOLEAN :
          call_insert(url, own) /\ UNCHANGED <<pauseVars, sigVars, resVars, limitVars>>
    \/ \E url \in Urls :
          call_contains(url) /\ UNCHANGED <<pauseVars, sigVars, resVars, limitVars>>
    \/ \E url \in Urls :
          call_get_scan_by_url(url) /\ UNCHANGED <<pauseVars, sigVars, resVars, limitVars>>
    \/ call_cache_insert(Probed) /\ UNCHANGED <<pauseVars, sigVars, resVars, limitVars>>
    \/ call_cache_contains(Probed) /\ UNCHANGED <<pauseVars, sigVars, resVars, limitVars>>
    \/ call_serialize_scans /\ UNCHANGED <<pauseVars, sigVars, resVars, limitVars>>
    \/ call_serialize_responses /\ UNCHANGED <<pauseVars, sigVars, resVars, limitVars>>
    \/ call_pause /\ UNCHANGED <<pauseVars, sigVars, resVars, limitVars>>

SpecPoison == Init /\ [][NextPoison]_vars

(***************************************************************************)
(* Calls on a FeroxScan alone.                                             *)
(***************************************************************************)
\* a == b for two FeroxScans, the first call of the run
scan_eq(a, b) ==
    /\ call = NoCall
    /\ call' = [op |-> "eq", a |-> a, b |-> b]
    /\ ret' = [ok |-> TRUE, value |-> FeroxScan_eq(a, b)]
    /\ UNCHANGED poisoned

\* two calls of FeroxScan::new with the same url, each drawing its uuid, and
\* the comparison of the two
scan_eq_new(url, scan_type) ==
    /\ call = NoCall
    /\ call' = [op |-> "eq_new",
                a |-> NewScan(Uuid(1, FALSE), url, scan_type, NoBar),
                b |-> NewScan(Uuid(2, FALSE), url, scan_type, NoBar)]
    /\ ret' = [ok |-> TRUE,
               value |-> FeroxScan_eq(NewScan(Uuid(1, FALSE), url, scan_type, NoBar),
                                      NewScan(Uuid(2, FALSE), url, scan_type, NoBar))]
    /\ UNCHANGED poisoned

\* b.id = a.id.clone(), and the comparison again
scan_eq_same_id ==
    /\ call.op \in {"eq", "eq_new"}
    /\ call' = [op |-> "eq_same_id", a |-> call.a, b |-> [call.b EXCEPT !.id = call.a.id]]
    /\ ret' = [ok |-> TRUE, value |-> FeroxScan_eq(call.a, [call.b EXCEPT !.id = call.a.id])]
    /\ UNCHANGED poisoned

\* the scans compared: those of SomeScans without a task or a progress bar
PlainScans == {s \in SomeScans : s.task = "None" /\ s.progress_bar = NoBar}

NextEq ==
    \/ \E a \in PlainScans, b \in PlainScans :
          scan_eq(a, b)
              /\ UNCHANGED <<regVars, responses, pauseVars, sigVars, resVars, limitVars>>
    \/ \E url \in Urls, scan_type \in ScanType :
          scan_eq_new(url, scan_type)
              /\ UNCHANGED <<regVars, responses, pauseVars, sigVars, resVars, limitVars>>
    \/ scan_eq_same_id
           /\ UNCHANGED <<regVars, responses, pauseVars, sigVars, resVars, limitVars>>

SpecEq == Init /\ [][NextEq]_vars

(***************************************************************************)
(* display_scans, by the single caller between its other calls.            *)
(***************************************************************************)
\* a numbering that counts the lines shown
NumberAmongShown(i, k) == k - 1

\* `for (i, scan) in scans.iter().enumerate()`: the number of a line is the
\* entry's index in the whole Vec, from 0
LineNumber(i, k) == i - 1

\* the lines display_scans prints: one for each Directory entry
DisplayedLines(hs) ==
    LET shown == SelectSeq([i \in 1..Len(hs) |-> i],
                           LAMBDA i : scan[hs[i]].scan_type = Directory)
    IN [k \in 1..Len(shown) |->
           [number |-> LineNumber(shown[k], k),
            handle |-> hs[shown[k]],
            complete |-> scan[hs[shown[k]]].complete,
            url |-> scan[hs[shown[k]]].url]]

\* SCANNED_URLS.display_scans()
display_scans ==
    /\ pc[Main] = "idle"
    /\ scans_lock = 0
    /\ \A i \in 1..Len(scans) : scan_lock[scans[i]] = 0
    /\ call' = [op |-> "display_scans", scans |-> scans]
    /\ ret' = [ok |-> TRUE, value |-> DisplayedLines(scans)]
    /\ UNCHANGED poisoned

NextList ==
    \/ \E url \in Urls :
          add_directory_scan(Main, url) /\ UNCHANGED <<responses, pauseVars, limitVars, callVars, sigVars, resVars>>
    \/ \E url \in Urls :
          add_file_scan(Main, url) /\ UNCHANGED <<responses, pauseVars, limitVars, callVars, sigVars, resVars>>
    \/ insert(Main) /\ UNCHANGED <<responses, pauseVars, limitVars, callVars, sigVars, resVars>>
    \/ \E h \in Handles :
          finish_between_calls(h) /\ UNCHANGED <<responses, pauseVars, limitVars, callVars, sigVars, resVars>>
    \/ display_scans /\ UNCHANGED <<regVars, responses, pauseVars, limitVars, sigVars, resVars>>

SpecList == Init /\ [][NextList]_vars

(***************************************************************************)
(* The methods of a stored FeroxScan, called by the single caller between  *)
(* its calls into the registry.                                            *)
(***************************************************************************)
\* h is a stored FeroxScan nobody holds the lock of, and the caller is in no
\* call
Callable(h) ==
    /\ pc[Main] = "idle"
    /\ \E i \in 1..Len(scans) : scans[i] = h
    /\ scan_lock[h] = 0

\* scan.lock().unwrap().finish(), on a scan complete or not
scan_finish(h) ==
    /\ Callable(h)
    /\ scan' = [scan EXCEPT ![h] = finish(scan[h])]
    /\ UNCHANGED <<scans, nscans, scans_lock, scan_lock, pc, cand, idx, sentry, pre, callVars>>

\* scan.lock().unwrap().abort()
scan_abort(h) ==
    /\ Callable(h)
    /\ scan' = [scan EXCEPT ![h] = abort(scan[h])]
    /\ UNCHANGED <<scans, nscans, scans_lock, scan_lock, pc, cand, idx, sentry, pre, callVars>>

\* scan.lock().unwrap().progress_bar()
scan_progress_bar(h) ==
    /\ Callable(h)
    /\ scan' = [scan EXCEPT ![h] = progress_bar(scan[h])]
    /\ UNCHANGED <<scans, nscans, scans_lock, scan_lock, pc, cand, idx, sentry, pre, callVars>>

\* the driver stores the JoinHandle of the task it spawned for the scan
attach_task(h) ==
    /\ Callable(h)
    /\ scan[h].task = "None"
    /\ scan' = [scan EXCEPT ![h].task = "Some(task)"]
    /\ UNCHANGED <<scans, nscans, scans_lock, scan_lock, pc, cand, idx, sentry, pre, callVars>>

\* serde_json::to_string(&*SCANNED_URLS), all locks free
registry_serialize ==
    /\ pc[Main] = "idle"
    /\ call' = [op |-> "serialize"]
    /\ ret' = [ok |-> TRUE,
               value |-> JArr([i \in 1..Len(scans) |-> FeroxScan_serialize(scan[scans[i]])])]
    /\ UNCHANGED <<regVars, poisoned>>

NextScan ==
    \/ \E url \in Urls :
          add_directory_scan(Main, url) /\ UNCHANGED <<responses, pauseVars, limitVars, callVars, sigVars, resVars>>
    \/ \E url \in Urls :
          add_file_scan(Main, url) /\ UNCHANGED <<responses, pauseVars, limitVars, callVars, sigVars, resVars>>
    \/ insert(Main) /\ UNCHANGED <<responses, pauseVars, limitVars, callVars, sigVars, resVars>>
    \/ \E h \in Handles :
          scan_finish(h) /\ UNCHANGED <<responses, pauseVars, limitVars, sigVars, resVars>>
    \/ \E h \in Handles :
          scan_abort(h) /\ UNCHANGED <<responses, pauseVars, limitVars, sigVars, resVars>>
    \/ \E h \in Handles :
          scan_progress_bar(h) /\ UNCHANGED <<responses, pauseVars, limitVars, sigVars, resVars>>
    \/ \E h \in Handles :
          attach_task(h) /\ UNCHANGED <<responses, pauseVars, limitVars, sigVars, resVars>>
    \/ registry_serialize /\ UNCHANGED <<responses, pauseVars, limitVars, sigVars, resVars>>

SpecScan == Init /\ [][NextScan]_vars

(***************************************************************************)
(* sigint_handler called twice: by the ctrlc thread and by the time        *)
(* limit's task.  The handler has no guard of its own; the variables       *)
(* hpc, snap, file follow the call that came first, `second` the other.    *)
(***************************************************************************)
\* neither call has reached std::process::exit(1)
ProcessRuns == hpc # "exited" /\ second.hpc # "exited"

\* the first call of the handler is running
FirstRuns == hpc \notin {"idle", "exited"}

\* the delay ends while the handler runs on the ctrlc thread: the task calls
\* sigint_handler()
second_by_limit ==
    /\ tpc = "sleeping"
    /\ FirstRuns
    /\ second.hpc = "idle"
    /\ tpc' = "fired"
    /\ elapsed' = length_in_secs
    /\ invoked' = invoked + 1
    /\ second' = [second EXCEPT !.hpc = "open"]
    /\ UNCHANGED <<time_spec, length_in_secs>>

\* ctrl+c comes while the handler runs on the time limit's task: the ctrlc
\* thread calls sigint_handler
second_by_ctrlc ==
    /\ tpc = "fired"
    /\ FirstRuns
    /\ second.hpc = "idle"
    /\ second' = [second EXCEPT !.hpc = "open"]
    /\ UNCHANGED <<tpc, time_spec, length_in_secs, elapsed, invoked>>

\* open_file(&filename) in the second call; None leads to exit
second_open(opened) ==
    /\ second.hpc = "open"
    /\ second' = [second EXCEPT !.hpc = AfterOpen(opened)]
    /\ UNCHANGED <<tpc, time_spec, length_in_secs, elapsed, invoked>>

\* the second call serializes the registry and the cache, the locks being free
second_serialize ==
    /\ second.hpc = "scans"
    /\ scans_lock = 0
    /\ \A i \in 1..Len(scans) : scan_lock[scans[i]] = 0
    /\ second' = [second EXCEPT
                     !.hpc = "write",
                     !.snap = [scans |-> [i \in 1..Len(scans) |-> FeroxScan_serialize(scan[scans[i]])],
                               responses |-> FeroxResponses_serialize(responses).v]]
    /\ UNCHANGED <<tpc, time_spec, length_in_secs, elapsed, invoked>>

\* safe_file_write in the second call has written the JSON
second_write ==
    /\ second.hpc = "write"
    /\ second' = [second EXCEPT
                     !.hpc = "written",
                     !.file = FeroxState_serialize(JArr(second.snap.scans),
                                                   Configuration_serialize(config),
                                                   JArr(second.snap.responses))]
    /\ UNCHANGED <<tpc, time_spec, length_in_secs, elapsed, invoked>>

\* std::process::exit(1) in the second call
second_exit ==
    /\ second.hpc = "written"
    /\ second' = [second EXCEPT !.hpc = "exited"]
    /\ UNCHANGED <<tpc, time_spec, length_in_secs, elapsed, invoked>>

second_handler ==
    \/ \E opened \in BOOLEAN : second_open(opened)
    \/ second_serialize
    \/ second_write
    \/ second_exit

\* a process started with --time-limit 3s
InitRace == InitLimit /\ time_spec = [length |-> [Zero EXCEPT ![1] = 3], unit |-> "s"]

\* a worker task, ctrl+c, the time limit and the handler's calls, until the
\* process exits
NextRace ==
    \/ ProcessRuns /\ second.hpc = "idle" /\ registering(Main)
    \/ ProcessRuns /\ limit_parse /\ UNCHANGED <<responses, pauseVars, resVars, callVars>>
    \/ ProcessRuns /\ limit_expire /\ UNCHANGED <<responses, pauseVars, resVars, callVars>>
    \/ ProcessRuns /\ tpc = "sleeping" /\ sigint_begin
          /\ UNCHANGED <<responses, pauseVars, resVars, limitVars, callVars>>
    \/ ProcessRuns /\ sigint_handler /\ UNCHANGED <<responses, pauseVars, resVars, limitVars, callVars>>
    \/ ProcessRuns /\ second_by_limit /\ UNCHANGED <<regVars, responses, pauseVars, sigVars, resVars, callVars>>
    \/ ProcessRuns /\ second_by_ctrlc /\ UNCHANGED <<regVars, responses, pauseVars, sigVars, resVars, callVars>>
    \/ ProcessRuns /\ second_handler /\ UNCHANGED <<regVars, responses, pauseVars, sigVars, resVars, callVars>>

SpecRace == InitRace /\ [][NextRace]_vars

(***************************************************************************)
(* Claims about the registry.                                              *)
(***************************************************************************)
\* the url of the scan worker w passed to insert
CandUrl(w) == scan[cand[w]].url

\* whether the registry held url when worker w called insert
KnownAtCall(w, url) == \E i \in 1..Len(pre[w]) : pre[w][i].url = url

\* C1: in every reachable state, under any interleaving of insert /
\* add_directory_scan / add_file_scan callers, the registry holds at most one
\* Scan per distinct url string.
C1_OneScanPerUrl ==
    \A i, j \in 1..Len(scans) : i # j => scan[scans[i]].url # scan[scans[j]].url

\* the callers whose insert of url has returned and had found url unregistered
\* when they called
RacedOn(url) ==
    {w \in Workers : pc[w] = "returned" /\ CandUrl(w) = url /\ ~KnownAtCall(w, url)}

\* C2: when two or more callers concurrently insert Scans carrying the same
\* url that is not yet registered, exactly one of the inserts returns true and
\* every other returns false: no two of them return true, and one that returns
\* false does so because the url has been registered meanwhile.
C2_ExactlyOneInsertWins ==
    \A url \in Urls :
        /\ Cardinality({w \in RacedOn(url) : sentry[w]}) <= 1
        /\ \A w \in RacedOn(url) : ~sentry[w] => contains(url)

\* C3: for a single caller, insert returns true and appends the scan at the
\* end of the registry iff no registered entry has the same url, after which
\* contains(url) is true; otherwise it returns false and the registry's
\* contents, size and order are unchanged.  Stated of every return of insert.
C3_InsertSequential ==
    pc[Main] = "returned" =>
        LET w == Main
            url == CandUrl(w)
        IN /\ sentry[w] = ~KnownAtCall(w, url)
           /\ sentry[w] =>
                 /\ View(scans) = Append(pre[w], Record(scan[cand[w]]))
                 /\ scans[Len(scans)] = cand[w]
                 /\ contains(url)
           /\ ~sentry[w] => View(scans) = pre[w]

\* C3's case: the insert of a second scan of a registered url was refused
\* and the registry still holds the first one alone
C3_Witness ==
    /\ pc[Main] = "returned"
    /\ ~sentry[Main]
    /\ Len(scans) >= 1
    /\ \A i \in 1..Len(scans) : scans[i] # cand[Main]

(***************************************************************************)
(* Claims about pause.                                                     *)
(***************************************************************************)
\* C4: a call to pause never returns while PAUSE_SCAN has been continuously
\* set since the call began: every caller returns only after a poll that saw
\* the flag cleared, so when the flag is cleared a delay D after the call the
\* return, which follows the clear, comes no earlier than D.
C4_NoReturnWhileSet ==
    \A w \in Pausers : ppc[w] \in {"exit", "sub", "clear", "returned"} => ~setSince[w]

\* C4's case: two callers entered while the flag was set, have polled and are
\* both kept in the loop
C4_Witness ==
    /\ PAUSE_SCAN
    /\ \A w \in Pausers : ppc[w] = "tick" /\ interval[w] = "armed" /\ setSince[w]

C6_OnePrompterPerSession ==
    \A a, b \in Pausers :
        (a # b /\ setSince[a] /\ setSince[b]) => ~(prompter[a] /\ prompter[b])

(***************************************************************************)
(* Claims about the snapshot and its restore.                              *)
(***************************************************************************)
\* the state file that records the registry and the cache of `live`
SnapshotOf(live) ==
    FeroxState_serialize(
        JArr([i \in 1..Len(live.scans) |-> FeroxScan_serialize(live.scans[i])]),
        Configuration_serialize(config),
        FeroxResponses_serialize(live.responses))

RequestUrl(req) == req[1] \o req[2]

\* C8: after a restore and the driver's pass, no request was issued under a
\* Directory scan restored as complete; each word of the wordlist was
\* requested exactly once under each Directory scan restored as incomplete;
\* and the response of a request was reported iff its url was not in the
\* restored cache.
C8_ResumeEndToEnd ==
    rpc = "driven" =>
        /\ \A i \in 1..Len(restored.scans) :
              LET s == restored.scans[i]
              IN /\ (s.scan_type = Directory /\ s.complete) =>
                       \A k \in 1..Len(requests) : requests[k][1] # s.url
                 /\ (s.scan_type = Directory /\ ~s.complete) =>
                       \A j \in 1..Len(Wordlist) :
                          Cardinality({k \in 1..Len(requests) :
                                          requests[k] = <<s.url, Wordlist[j]>>}) = 1
        /\ \A k \in 1..Len(requests) :
              (\E i \in 1..Len(restored.responses) :
                  restored.responses[i].url = RequestUrl(requests[k]))
              <=> (\A o \in 1..Len(output) : output[o] # RequestUrl(requests[k]))

\* C8's case: a complete Directory scan and an incomplete one were restored
\* with a cached response under the incomplete one; the pass requested both
\* words there and reported one of them
C8_Witness ==
    /\ rpc = "driven"
    /\ \E i \in 1..Len(restored.scans) :
          restored.scans[i].scan_type = Directory /\ restored.scans[i].complete
    /\ Len(requests) = Len(Wordlist)
    /\ Len(output) = 1
    /\ \E k \in 1..Len(requests), i \in 1..Len(restored.responses) :
          restored.responses[i].url = RequestUrl(requests[k])

\* C9: the file the handler writes while worker tasks go on inserting scans,
\* finishing scans and inserting responses records the registry and the
\* cache as they both were at one instant of the handler's run.
C9_PointInTime ==
    (hpc = "exited" /\ file # NoFile) => \E live \in seen : file = SnapshotOf(live)

\* the response records a `responses` array deserializes into, in file order
GoodResponses(arr) ==
    LET good == SelectSeq(arr, LAMBDA e : FeroxResponse_deserialize(e).ok)
    IN [i \in 1..Len(good) |-> FeroxResponse_deserialize(good[i]).response]

\* C10: after resume_scan's responses loop the cache holds exactly the
\* elements of the file's `responses` array that deserialize into a response
\* record, in file order; and the process never terminates from inside the
\* loop, whatever the elements are.
C10_ResponsesBestEffort ==
    LET expected == IF ResponsesArray = Absent THEN <<>>
                    ELSE GoodResponses(ResponsesArray.v)
    IN /\ rpc = "scans" => responses = expected
       /\ rpc \in {"done", "driven"} => restored.responses = expected
       /\ rpc \in {"exit1", "panic"} => ridx = 0 /\ responses = <<>>

\* C10's case: a file whose `responses` array has an element that does not
\* deserialize in front of one that does, and the second one is in the cache
C10_Witness ==
    /\ rpc = "done"
    /\ seen = {}
    /\ ResponsesArray # Absent
    /\ Len(ResponsesArray.v) = 2
    /\ ~FeroxResponse_deserialize(ResponsesArray.v[1]).ok
    /\ FeroxResponse_deserialize(ResponsesArray.v[2]).ok
    /\ Len(restored.responses) = 1

(***************************************************************************)
(* Claims about the restore of `scans`.                                    *)
(***************************************************************************)
\* the elements of the file's `scans` array
FileScans == IF ScansArray = Absent THEN <<>> ELSE ScansArray.v

\* an element that deserializes into a Scan: serde accepts any JSON object
WellFormed(e) == e.t = "obj"

\* the member `key` of element e when it is of kind `t`, else the default d
FieldOr(e, key, t, d) ==
    IF Value_get(e, key).t = t THEN Value_get(e, key).v ELSE d

\* the record a well-formed element stands for; i is its position in the
\* array, which decides the uuid an element without an id is given
ElementRecord(e, i) ==
    [id |-> FieldOr(e, "id", "str", Uuid(i, TRUE)),
     url |-> FieldOr(e, "url", "str", <<>>),
     scan_type |-> IF FieldOr(e, "scan_type", "str", <<>>) = <<"Directory">>
                   THEN Directory ELSE File,
     complete |-> FieldOr(e, "complete", "bool", FALSE)]

\* the records of the well-formed elements, in file order
WellFormedRecords ==
    LET ix == SelectSeq([i \in 1..Len(FileScans) |-> i],
                        LAMBDA i : WellFormed(FileScans[i]))
    IN [k \in 1..Len(ix) |-> ElementRecord(FileScans[ix[k]], ix[k])]

\* s is t with some elements left out
RECURSIVE IsSubSeq(_, _)
IsSubSeq(s, t) ==
    IF s = <<>> THEN TRUE
    ELSE IF t = <<>> THEN FALSE
    ELSE IF Head(s) = Head(t) THEN IsSubSeq(Tail(s), Tail(t))
    ELSE IsSubSeq(s, Tail(t))

\* the urls of the well-formed elements are pairwise distinct
DistinctUrls ==
    \A i, j \in 1..Len(WellFormedRecords) :
        i # j => WellFormedRecords[i].url # WellFormedRecords[j].url

\* C11 as claimed: for a `scans` array whose well-formed elements have
\* pairwise-distinct urls, after resume_scan the registry holds every
\* well-formed element with its id, url, kind and complete flag, in file
\* order, however many malformed elements are interleaved among them.
C11_ScansRestored ==
    (rpc \in {"done", "driven"} /\ seen = {} /\ DistinctUrls)
        => IsSubSeq(WellFormedRecords, restored.scans)

\* C11 amended: the same, for arrays whose well-formed elements have
\* pairwise-distinct urls none of which is the empty string (the url of the
\* default Scan that stands in for a malformed element).
C11_ScansRestoredNonEmptyUrls ==
    (/\ rpc \in {"done", "driven"}
     /\ seen = {}
     /\ DistinctUrls
     /\ \A i \in 1..Len(WellFormedRecords) : WellFormedRecords[i].url # <<>>)
        => IsSubSeq(WellFormedRecords, restored.scans)

\* C11's case: a malformed element in front of a well-formed one, and both
\* the default Scan and the element's record are in the registry
C11_Witness ==
    /\ rpc = "done"
    /\ seen = {}
    /\ Len(FileScans) = 2
    /\ ~WellFormed(FileScans[1])
    /\ WellFormed(FileScans[2])
    /\ ElementRecord(FileScans[2], 2).url # <<>>
    /\ Len(restored.scans) = 2

(***************************************************************************)
(* C12, C13: the failures of resume_scan before anything is restored.      *)
(***************************************************************************)
\* resume_scan is past File::open and serde_json::from_reader
PastLoading == rpc \notin {"off", "open"}

\* C12: when the state file cannot be opened, or its content is not valid
\* JSON, resume_scan ends in exit status 1 and returns no Configuration.
C12_LoadFailureExitsOne ==
    (PastLoading /\ file \in {NoFile, NotJson}) => rpc = "exit1"

\* the "config" member of a state file that is JSON is missing or does not
\* deserialize to a Configuration
ConfigUnusable ==
    /\ file \notin {NoFile, NotJson}
    /\ \/ Value_get(file, "config") = Absent
       \/ ~Configuration_deserialize(Value_get(file, "config")).ok

\* C13: when the "config" member is missing or does not deserialize,
\* resume_scan ends in exit status 1 with the response cache and the scan
\* registry as they were before the call, whatever the other members hold.
C13_BadConfigExitsBeforeRestoring ==
    (PastLoading /\ rpc # "config" /\ ConfigUnusable)
        => /\ rpc = "exit1"
           /\ responses = <<>>
           /\ scans = <<>>
           /\ nscans = 0
           /\ restored = NothingRestored

\* a file with scans and responses to restore and a config that does not
\* deserialize has been refused
C13_Witness ==
    /\ rpc = "exit1"
    /\ ConfigUnusable
    /\ Value_get(file, "config") # Absent
    /\ ScansArray # Absent /\ Len(ScansArray.v) > 0
    /\ ResponsesArray # Absent /\ Len(ResponsesArray.v) > 0

(***************************************************************************)
(* C14: the order of the handler's steps.                                  *)
(***************************************************************************)
\* the members of the state the handler writes
IsSnapshot(f) ==
    /\ f \notin {NoFile, NotJson}
    /\ Value_get(f, "scans") # Absent
    /\ Value_get(f, "config") # Absent
    /\ Value_get(f, "responses") # Absent

\* one step seen from the handler: the notice comes first, the file is
\* written once, right before the exit, the exit follows the write or the
\* failed open, and nothing follows the exit
HandlerOrder ==
    /\ hpc = "idle" => hpc' \in {"idle", "open"}
    /\ file' # file => hpc = "write" /\ hpc' = "exited" /\ IsSnapshot(file')
    /\ (hpc # "exited" /\ hpc' = "exited") => hpc \in {"open", "write"}
    /\ hpc # "idle" => hpc' # "idle"
    /\ hpc = "exited" => hpc' = "exited"

FullSeconds(spec) ==
    CASE to_ascii_lowercase(spec.unit) = "m" -> Mul(spec.length, 60)
      [] to_ascii_lowercase(spec.unit) = "h" -> Mul(Mul(spec.length, 60), 60)
      [] to_ascii_lowercase(spec.unit) = "d" -> Mul(Mul(Mul(spec.length, 60), 60), 24)
      [] OTHER -> spec.length

\* the task of the time limit is past its parse and conversion
LimitDecided == tpc \notin {"off", "called"}

\* C15: for a spec whose numeric part parses as a u64, the thread calls the
\* handler, never more than once and never before the whole duration the
\* spec stands for has passed; with "3s", after 3 seconds.
C15_FiresOnceAfterFullDuration ==
    (LimitDecided /\ Fits(time_spec.length))
        => /\ tpc \in {"sleeping", "fired"}
           /\ invoked <= 1
           /\ tpc = "fired" => invoked = 1 /\ ~Less(elapsed, FullSeconds(time_spec))

\* C16: when the numeric part does not fit a u64 the thread returns without
\* a delay and the handler is never called: the scan goes on without limit.
C16_UnparsableLimitIsNotEnforced ==
    (LimitDecided /\ ~Fits(time_spec.length))
        => /\ tpc = "returned"
           /\ elapsed = Zero
           /\ invoked = 0
           /\ hpc = "idle"

\* the thread has returned from the spec 18446744073709551616m
C16_Witness ==
    /\ tpc = "returned"
    /\ time_spec = [length |-> <<0, 0, 0, 0, 1, 0>>, unit |-> "m"]

\* C25: for a numeric part n that parses as a u64 the duration slept is
\* exactly n times the unit's multiplier (1, 60, 3600, 86400, the unit in
\* either case), never a smaller value the product wrapped around to.
C25_SleepsExactProduct ==
    (LimitDecided /\ Fits(time_spec.length))
        => /\ tpc \in {"sleeping", "fired"}
           /\ length_in_secs = FullSeconds(time_spec)

(***************************************************************************)
(* C17: the lookup of the response cache.                                  *)
(***************************************************************************)
\* C17: RESPONSES.contains(r) is true iff some cached response has r's url;
\* no other field of r or of the cached responses plays a part.
C17_ContainsIffSameUrl ==
    call.op = "contains" =>
        /\ ret.value = (\E i \in 1..Len(responses) : responses[i].url = call.response.url)
        /\ \A other \in Probes :
              other.url = call.response.url
                  => FeroxResponses_contains(responses, other) = ret.value

\* a response was found whose status, length and wildcard flag differ from
\* those of every cached response of its url, and of which no copy is cached
C17_Witness ==
    /\ call.op = "contains"
    /\ ret.value
    /\ Len(responses) = 2
    /\ \A i \in 1..Len(responses) :
          responses[i].url = call.response.url
              => /\ responses[i].status # call.response.status
                 /\ responses[i].content_length # call.response.content_length
                 /\ responses[i].wildcard # call.response.wildcard

(***************************************************************************)
(* C18, C19: Serialize and Deserialize for FeroxScan.                      *)
(***************************************************************************)
\* the keys of a JSON object, in the order they were written
Keys(val) == [i \in 1..Len(val.v) |-> val.v[i][1]]

\* C18: a FeroxScan is serialized as its id, url, scan_type and complete, in
\* that order and nothing else; deserializing the result gives a FeroxScan
\* of the same id, url, kind and complete, with no task and no progress bar.
C18_ScanRoundTrip ==
    call.op = "round_trip" =>
        /\ Keys(call.value) = <<"id", "url", "scan_type", "complete">>
        /\ ret.ok
        /\ Record(ret.scan) = Record(call.scan)
        /\ ret.scan.task = "None"
        /\ ret.scan.progress_bar = NoBar

\* a complete Directory scan with a task and a progress bar went round
C18_Witness ==
    /\ call.op = "round_trip"
    /\ call.scan.scan_type = Directory
    /\ call.scan.complete
    /\ call.scan.task # "None"
    /\ call.scan.progress_bar = BarFinished
    /\ call.scan.id # Uuid(1, TRUE)

\* the scan_type of a record names neither variant
UnknownKind(val) ==
    /\ as_str(Value_get(val, "scan_type")) # Absent
    /\ Value_get(val, "scan_type").v \notin {<<"File">>, <<"Directory">>}

\* C19: a record whose scan_type is a string other than "File" and
\* "Directory" deserializes, into a File scan with the record's id, url and
\* complete.
C19_UnknownKindIsFile ==
    (call.op = "deserialize" /\ UnknownKind(call.value)) =>
        /\ ret.ok
        /\ ret.scan.scan_type = File
        /\ ret.scan.id = Value_get(call.value, "id").v
        /\ ret.scan.url = Value_get(call.value, "url").v
        /\ ret.scan.complete = Value_get(call.value, "complete").v

\* the record of the test, scan_type "Not Correct" and complete true, was
\* deserialized
C19_Witness ==
    /\ call.op = "deserialize"
    /\ Value_get(call.value, "scan_type") = JStr(<<"Not Correct">>)
    /\ Value_get(call.value, "complete") = JBool(TRUE)
    /\ ret.ok

(***************************************************************************)
(* C20: poisoned locks.                                                    *)
(***************************************************************************)
\* what a call returns for "nothing": false, the empty list, None
NothingReturned(v) == v \in {JBool(FALSE), JArr(<<>>), Absent}

\* C20: with a lock poisoned no call crashes; a call that finds its
\* collection's lock (or, for insert, its scan's lock) poisoned returns
\* false or empty and changes neither the registry nor the cache.
C20_PoisonedLocksDegrade ==
    (call.op # "none" /\ poisoned # {}) =>
        /\ ret.ok
        /\ ret.hit => NothingReturned(ret.value) /\ ~ret.mutated

(***************************************************************************)
(* C21: the lock discipline of the registry.                               *)
(***************************************************************************)
\* C21: no caller holds the collection's lock and a FeroxScan's lock at the
\* same time; insert has released its candidate's lock when it takes the
\* collection's lock.
C21_LocksNeverNested ==
    \A w \in Workers :
        scans_lock = w => \A h \in Handles : scan_lock[h] # w

(***************************************************************************)
(* C22: equality of FeroxScans.                                            *)
(***************************************************************************)
\* C22: two FeroxScans are equal iff their ids are equal, whatever their
\* other fields; two scans made for one url are unequal, and equal once one
\* has the other's id.
C22_EqualityById ==
    /\ call.op \in {"eq", "eq_new", "eq_same_id"} => ret.value = (call.a.id = call.b.id)
    /\ call.op = "eq_new" => call.a.url = call.b.url /\ ~ret.value
    /\ call.op = "eq_same_id" => ret.value

\* two scans that differ in url, kind and complete compared equal once they
\* had one id
C22_Witness ==
    /\ call.op = "eq_same_id"
    /\ ret.value
    /\ call.a.url # call.b.url
    /\ call.a.scan_type # call.b.scan_type
    /\ call.a.complete # call.b.complete

(***************************************************************************)
(* C23, C24: the value of INTERACTIVE_BARRIER.                             *)
(***************************************************************************)
\* C23: whatever the callers of pause and the changes of PAUSE_SCAN, the
\* barrier is 0 or 1: it never exceeds 1 and never wraps below 0.
C23_BarrierZeroOrOne == INTERACTIVE_BARRIER \in {0, 1}

\* no caller is inside pause
NobodyPauses == \A w \in Pausers : ppc[w] = "idle"

\* C24: whenever every caller of pause has returned the barrier is 0, so the
\* next session has a prompter again.
C24_BarrierZeroAtRest == NobodyPauses => INTERACTIVE_BARRIER = 0

(***************************************************************************)
(* C26: the registry is append-only and its listing is numbered by         *)
(* position.                                                               *)
(***************************************************************************)
\* s is the beginning of t
IsPrefix(s, t) == Len(s) <= Len(t) /\ \A i \in 1..Len(s) : s[i] = t[i]

\* the positions of the Directory entries of a registry, in order
DirectoryPositions(hs) ==
    SelectSeq([i \in 1..Len(hs) |-> i], LAMBDA i : scan[hs[i]].scan_type = Directory)

\* the last listing shows exactly the Directory entries the registry had, in
\* order, each under its position in the whole registry (from 0), and each
\* is still at that position now
ListingByPosition ==
    call.op = "display_scans" =>
        /\ Len(ret.value) = Len(DirectoryPositions(call.scans))
        /\ \A k \in 1..Len(ret.value) :
              /\ ret.value[k].number = DirectoryPositions(call.scans)[k] - 1
              /\ ret.value[k].handle = call.scans[DirectoryPositions(call.scans)[k]]
              /\ ret.value[k].number + 1 <= Len(scans)
              /\ scans[ret.value[k].number + 1] = ret.value[k].handle

\* C26: no step removes or reorders entries of the registry; a listing shows
\* exactly the Directory entries in insertion order, numbered by position in
\* the whole registry, and the number of a scan stays the same whatever is
\* inserted afterwards.
C26_AppendOnlyStableListing ==
    /\ [][IsPrefix(scans, scans')]_vars
    /\ []ListingByPosition

\* a Directory scan was listed behind a File scan, under number 1: its
\* position in the whole registry, not among the lines shown
C26_Witness ==
    /\ call.op = "display_scans"
    /\ Len(call.scans) = 2
    /\ Len(ret.value) = 1
    /\ ret.value[1].number = 1

(***************************************************************************)
(* C27: the cache of responses only grows at its end.                      *)
(***************************************************************************)
\* the step is RESPONSES.insert(call'.response)
InsertsResponse == call'.op = "insert"

\* C27: FeroxResponses::insert puts its argument at the end of the cache,
\* also when a response of the same url is stored already, and every step
\* leaves the earlier cache a prefix of the later one.
C27_CacheAppendOnly ==
    [][/\ IsPrefix(responses, responses')
       /\ InsertsResponse =>
             /\ Len(responses') = Len(responses) + 1
             /\ responses'[Len(responses')] = call'.response]_vars

\* a response was inserted behind a stored response of its url
C27_Witness ==
    /\ call.op = "insert"
    /\ Len(responses) = 2
    /\ responses[2] = call.response
    /\ responses[1].url = responses[2].url

(***************************************************************************)
(* C28: complete never goes back to false.                                 *)
(***************************************************************************)
\* the step creates the FeroxScan of slot h
Creates(h) == scan[h] = NoScan /\ scan'[h] # NoScan

\* C28: a FeroxScan is created with complete = false, finish() leaves it
\* true, and no step of the registry or of a scan's methods takes complete
\* from true to false.
C28_CompleteMonotonic ==
    [][\A h \in Handles :
          /\ Creates(h) => ~scan'[h].complete
          /\ scan_finish(h) => scan'[h].complete
          /\ (scan[h] # NoScan /\ scan[h].complete) =>
                (scan'[h] # NoScan /\ scan'[h].complete)]_vars

\* a stored scan with a task attached was finished (its bar is stopped with
\* it), the registry has been serialized, and the scan is complete
C28_Witness ==
    /\ call.op = "serialize"
    /\ \E i \in 1..Len(scans) :
          /\ scan[scans[i]].complete
          /\ scan[scans[i]].task = "Some(task)"
          /\ scan[scans[i]].progress_bar = BarFinished

InsertOfStored ==
    /\ pc[Main] = "insert"
    /\ \E i \in 1..Len(scans) : scans[i] = cand[Main]

\* insert has returned false
InsertReturnedFalse == pc[Main] = "returned" /\ ~sentry[Main]

\* C30: a call of insert with a handle that is already stored in the
\* registry returns false; it does not block forever on the scan's lock or
\* on the collection's lock.
C30_InsertOfStoredReturns == InsertOfStored ~> InsertReturnedFalse

(***************************************************************************)
(* C31: the handler's snapshot is written by one call only.                *)
(***************************************************************************)
\* both calls of the handler are inside safe_file_write, each on the file
\* it opened
BothWriting == hpc = "write" /\ second.hpc = "write"

\* both calls of the handler have written a snapshot
BothWritten == file # NoFile /\ second.file # NoFile

\* C31: when ctrl+c and the end of the time limit come together, at most
\* one call of the handler writes a snapshot, and no call writes to a
\* snapshot file while another call is still writing.
C31_OneSnapshotWriter == ~BothWriting /\ ~BothWritten

=============================================================================
